---- MODULE Spec2Model ----
(***************************************************************************)
(* P7_TOPHITS (src/src/p7_tophits.c): a ranked list of hits kept as a      *)
(* record storage `unsrt` plus a view `hit` of pointers into it.           *)
(*                                                                         *)
(* Memory is modelled explicitly.  A pointer into record storage is a pair *)
(* (blk, idx): the address of the storage block and the slot index.  Each  *)
(* list has its own address names; realloc either leaves a block in place  *)
(* or moves it to another address, after which pointers that still hold    *)
(* the old address are dangling.  Owned payload (strings, sub-record       *)
(* arrays, alignment displays) lives in `heap`.  Memory that malloc or     *)
(* realloc hands out and nobody wrote is indeterminate: a record slot      *)
(* lists its unwritten fields in `undef`, an unwritten view entry is Wild. *)
(* Reading indeterminate or freed memory is undefined behaviour: every     *)
(* such read is a nondeterministic choice between a crash and going on     *)
(* with an arbitrary value.                                                *)
(***************************************************************************)
EXTENDS Integers, Sequences, FiniteSets, TLC

\* ---------------------------------------------------------------- bounds
\* Initial capacity of a list (256 in the source, scaled down so that
\* growth by doubling is reached with a few records).
default_nalloc == 1
\* Largest number of records held by all lists together through appends.
MaxN == 2
\* Number of heap cells for owned payload.
HeapSize == 7
\* Largest capacity a merge may give a list.
MaxNalloc == 4
\* Largest number of allocation failures in one run.
MaxFaults == 1
\* Largest per-record count of reported sub-records a Threshold call starts
\* from (the count only ever grows).
MaxReported == 2

Lists == {1, 2}
\* Addresses a list's record storage can be at.
Addrs == {1, 2}
\* Sortkeys (the callers' score and pvalue arguments equal the sortkey, as in
\* the drivers of the source).
Keys == {0, 1}

NULL == 0

Max(a, b) == IF a >= b THEN a ELSE b

\* ---------------------------------------------------------------- memory
Ptr(b, i) == [blk |-> b, idx |-> i]
\* An indeterminate pointer value (unwritten memory, or the result of
\* pointer arithmetic across blocks).
Wild == Ptr(0, 0)

Fields == {"name", "acc", "desc", "sortkey", "score", "pvalue", "ndom",
           "is_reported", "nreported", "best_domain", "dcl"}

\* A record slot nobody wrote yet.
RawHit == [name |-> NULL, acc |-> NULL, desc |-> NULL, sortkey |-> 0, score |-> 0,
           pvalue |-> 0, ndom |-> 0, is_reported |-> FALSE, nreported |-> 0,
           best_domain |-> 0, dcl |-> NULL, undef |-> Fields]

\* realloc(s, n): the first entries are kept, new ones are indeterminate.
Pad(s, n, x) == [i \in 1..n |-> IF i <= Len(s) THEN s[i] ELSE x]

FreeCell == [kind |-> "free", live |-> FALSE, str |-> "", dom |-> <<>>]
StrCell(s) == [kind |-> "str", live |-> TRUE, str |-> s, dom |-> <<>>]
AdCell == [kind |-> "ad", live |-> TRUE, str |-> "", dom |-> <<>>]
DclCell(d) == [kind |-> "dcl", live |-> TRUE, str |-> "", dom |-> d]

NoList == [st |-> "none", N |-> 0, Nalloc |-> 0, nreported |-> 0, is_sorted |-> FALSE,
           hit |-> <<>>, unsrt |-> <<>>, base |-> 0]

VARIABLES th, heap, pli, ret_hit, ret_msa, ofp, err, faults
vars == <<th, heap, pli, ret_hit, ret_msa, ofp, err, faults>>

NoHandle == [h |-> 0, idx |-> 0]
\* *ret_msa where no call of Alignment has just returned.
NoMsa == "unset"
\* What is on the stream ofp where no output function has just returned.
NoOutput == [op |-> "none", namew |-> 0, descw |-> 0, entries |-> <<>>, sentinel |-> FALSE]
NoPli == [T |-> 0, dom_by_E |-> FALSE, domT |-> 0, domE |-> 0,
          domZ_setby |-> "p7_ZSETBY_OPTION", domZ |-> 0]

\* An operation that returns status st met an allocation failure unless st is
\* eslOK or eslFAIL; a run meets at most MaxFaults of them.
Fault(st) ==
  IF st \in {"eslOK", "eslFAIL"} THEN faults' = faults
  ELSE faults < MaxFaults /\ faults' = faults + 1

\* The heap cells a record slot refers to, in field order: its strings, its
\* sub-record array and the alignment displays of that array.
SlotRefs(hp, r) ==
  <<r.name, r.acc, r.desc, r.dcl>>
  \o (IF r.dcl # NULL THEN [j \in 1..Len(hp[r.dcl].dom) |-> hp[r.dcl].dom[j].ad] ELSE <<>>)

RECURSIVE StorRefs(_, _, _)
StorRefs(hp, u, i) ==
  IF i > Len(u) THEN <<>> ELSE SlotRefs(hp, u[i]) \o StorRefs(hp, u, i + 1)

RECURSIVE AllRefs(_, _, _)
AllRefs(hp, t, l) ==
  IF l \notin Lists THEN <<>> ELSE StorRefs(hp, t[l].unsrt, 1) \o AllRefs(hp, t, l + 1)

RECURSIVE Dedup(_, _)
Dedup(s, seen) ==
  IF s = <<>> THEN <<>>
  ELSE IF Head(s) = NULL \/ Head(s) \in seen THEN Dedup(Tail(s), seen)
  ELSE <<Head(s)>> \o Dedup(Tail(s), seen \cup {Head(s)})

\* Heap addresses carry no meaning (the code compares a payload pointer with
\* NULL only), so after every operation the cells are renumbered in the order
\* in which the lists refer to them; a cell nothing refers to is out of the
\* program's reach and is recorded as free.
Rank(order, id) == IF id = NULL THEN NULL ELSE CHOOSE k \in 1..Len(order) : order[k] = id

NormHeap(hp, order) ==
  [k \in 1..HeapSize |->
     IF k > Len(order) THEN FreeCell
     ELSE LET c == hp[order[k]] IN
          [c EXCEPT !.dom = [j \in 1..Len(c.dom) |->
                               [c.dom[j] EXCEPT !.ad = Rank(order, c.dom[j].ad)]]]]

\* Fields of a slot that every append writes before anything reads them.
AppendWritten == {"name", "acc", "desc", "sortkey", "score", "pvalue"}

\* What the program can still read of a list.  Block addresses carry no
\* meaning either, so the storage's address is named 1 and a block it moved
\* away from 2.  Memory that every code path overwrites before reading it is
\* indeterminate to the program and recorded as such: the view of a list that
\* is not flagged sorted (Sort rebuilds it, line 255), the view entries past
\* the first N (past hit[0], which lines 49 and 391 give a meaning for an
\* empty list), and in the slots past the first N the fields that both
\* appending operations assign (lines 127-138 and 215-220).  The code indexes
\* its buffers below Nalloc only and resizes them by Nalloc, so what a buffer
\* holds past Nalloc entries (a realloc that succeeded before a later one
\* failed) is never read or written again.
Clean(h) ==
  LET Sw(p) == IF p = Wild \/ h.base = 1 THEN p ELSE Ptr(3 - p.blk, p.idx) IN
  [h EXCEPT
     !.base = IF h.st = "none" THEN 0 ELSE 1,
     !.hit = [k \in 1..h.Nalloc |->
                IF h.st = "live" /\ h.is_sorted /\ k <= Max(h.N, 1) THEN Sw(h.hit[k])
                ELSE Wild],
     !.unsrt = [i \in 1..h.Nalloc |->
                  IF i <= h.N THEN h.unsrt[i]
                  ELSE [f \in DOMAIN RawHit |->
                          IF f = "undef" THEN h.unsrt[i].undef \cup AppendWritten
                          ELSE IF f \in AppendWritten THEN RawHit[f]
                          ELSE h.unsrt[i][f]]]]

NormTh(c, order) ==
  [l \in Lists |->
     [c[l] EXCEPT !.unsrt = [i \in 1..Len(c[l].unsrt) |->
        [c[l].unsrt[i] EXCEPT !.name = Rank(order, @), !.acc = Rank(order, @),
                              !.desc = Rank(order, @), !.dcl = Rank(order, @)]]]]

\* The state after an operation that left the lists as t and the heap as hp.
Commit(t, hp) ==
  \E c \in {[l \in Lists |-> Clean(t[l])]} :
    \E order \in {Dedup(AllRefs(hp, c, 1), {})} :
      /\ th' = NormTh(c, order)
      /\ heap' = NormHeap(hp, order)

\* The state after undefined behaviour ended the process with e: nothing of
\* its memory remains.
Halt(e) ==
  /\ err' = e
  /\ th' = [l \in Lists |-> NoList]
  /\ heap' = [id \in 1..HeapSize |-> FreeCell]
  /\ pli' = NoPli
  /\ ret_hit' = NoHandle
  /\ ret_msa' = NoMsa
  /\ ofp' = NoOutput
  /\ faults' = 0

\* The step of an operation with status st that left the lists as t, the heap
\* as hp, the caller's handle as rh, pipeline as p and alignment as rm, or
\* ended with e.
Return(st, t, hp, rh, p, rm, e) ==
  IF e # "none" THEN Halt(e)
  ELSE /\ Fault(st)
       /\ Commit(t, hp)
       /\ ret_hit' = rh
       /\ pli' = p
       /\ ret_msa' = rm
       /\ ofp' = NoOutput
       /\ err' = err

\* The step of an operation that returns no alignment.
Step(st, t, hp, rh, p, e) == Return(st, t, hp, rh, p, NoMsa, e)


FreeIds(hp) == {id \in 1..HeapSize : hp[id].kind = "free"}
\* malloc of n cells: the n lowest free cells, in order.
RECURSIVE NewIds(_, _)
NewIds(free, n) ==
  IF n = 0 THEN <<>>
  ELSE LET m == CHOOSE x \in free : \A y \in free : x <= y
       IN  <<m>> \o NewIds(free \ {m}, n - 1)

TotalN == LET RECURSIVE Sum(_)
              Sum(S) == IF S = {} THEN 0
                        ELSE LET l == CHOOSE x \in S : TRUE IN th[l].N + Sum(S \ {l})
          IN  Sum({l \in Lists : th[l].st = "live"})

\* The step of an output function that wrote out to the stream, or ended
\* with e.
Output(out, e) ==
  IF e # "none" THEN Halt(e)
  ELSE /\ Commit(th, heap)
       /\ ofp' = out
       /\ UNCHANGED <<pli, err, faults>>
       /\ ret_hit' = NoHandle
       /\ ret_msa' = NoMsa
\* ---------------------------------------------------------------- Create
NewList(a) ==
  [st |-> "live", N |-> 0, Nalloc |-> default_nalloc, nreported |-> 0,
   is_sorted |-> TRUE,
   hit |-> [i \in 1..default_nalloc |-> IF i = 1 THEN Ptr(a, 0) ELSE Wild],
   unsrt |-> [i \in 1..default_nalloc |-> RawHit],
   base |-> a]

\* The outcomes of p7_tophits_Create: the new list, or NULL when one of its
\* three allocations fails (what was allocated is freed again).
CreateOutcomes ==
  {[status |-> "eslOK", h |-> NewList(a)] : a \in Addrs}
  \cup {[status |-> "NULL", h |-> NoList]}

p7_tophits_Create(l) ==
  /\ err = "none"
  /\ th[l].st = "none"
  /\ \E o \in CreateOutcomes :
       Step(o.status, [th EXCEPT ![l] = o.h], heap, NoHandle, pli, "none")

\* Rebase without the translation: the entry keeps the address it held.
RebaseNotTranslated(p, ori, base) == p

\* The pointer arithmetic h->unsrt + (p - ori) of Grow and Merge: a pointer
\* into the block at ori keeps its slot index in the block at base; the
\* difference of pointers into different blocks is indeterminate.
Rebase(p, ori, base) == IF p # Wild /\ p.blk = ori THEN Ptr(base, p.idx) ELSE Wild

\* Grow taking the new capacity as soon as the view's buffer has it.
GrowOutcomesEarlyNalloc(h) ==
  IF h.N < h.Nalloc THEN {[status |-> "eslOK", h |-> h]}
  ELSE LET Nalloc == h.Nalloc * 2
           ori    == h.base
           h81    == [h EXCEPT !.hit = Pad(h.hit, Nalloc, Wild), !.Nalloc = Nalloc]
           h82(a) == [h81 EXCEPT !.unsrt = Pad(h.unsrt, Nalloc, RawHit), !.base = a]
           Moved(g) == [g EXCEPT !.hit = [k \in 1..Len(g.hit) |->
                           IF k <= g.N
                           THEN Rebase(g.hit[k], ori, g.base)
                           ELSE g.hit[k]]]
       IN  {[status |-> "eslEMEM", h |-> h]}
           \cup {[status |-> "eslEMEM", h |-> h81]}
           \cup {[status |-> "eslOK",
                  h |-> (IF h.is_sorted THEN Moved(h82(a)) ELSE h82(a))] : a \in Addrs}

\* Grow without the test of line 79: the buffers are doubled on every call.
GrowOutcomesAlways(h) ==
  LET Nalloc == h.Nalloc * 2
      ori    == h.base
      h81    == [h EXCEPT !.hit = Pad(h.hit, Nalloc, Wild)]
      h82(a) == [h81 EXCEPT !.unsrt = Pad(h.unsrt, Nalloc, RawHit), !.base = a]
      Moved(g) == [g EXCEPT !.hit = [k \in 1..Len(g.hit) |->
                      IF k <= g.N
                      THEN Rebase(g.hit[k], ori, g.base)
                      ELSE g.hit[k]]]
  IN  {[status |-> "eslEMEM", h |-> h]}
      \cup {[status |-> "eslEMEM", h |-> h81]}
      \cup {[status |-> "eslOK",
             h |-> [(IF h.is_sorted THEN Moved(h82(a)) ELSE h82(a))
                      EXCEPT !.Nalloc = Nalloc]] : a \in Addrs}

\* ---------------------------------------------------------------- Grow
\* The outcomes of p7_tophits_Grow on list record h.
GrowOutcomes(h) ==
  IF h.N < h.Nalloc THEN {[status |-> "eslOK", h |-> h]}
  ELSE LET Nalloc == h.Nalloc * 2
           ori    == h.base
           h81    == [h EXCEPT !.hit = Pad(h.hit, Nalloc, Wild)]
           h82(a) == [h81 EXCEPT !.unsrt = Pad(h.unsrt, Nalloc, RawHit), !.base = a]
           Moved(g) == [g EXCEPT !.hit = [k \in 1..Len(g.hit) |->
                           IF k <= g.N
                           THEN Rebase(g.hit[k], ori, g.base)
                           ELSE g.hit[k]]]
       IN  {[status |-> "eslEMEM", h |-> h]}        \* the view's realloc fails
           \cup {[status |-> "eslEMEM", h |-> h81]} \* the storage's realloc fails
           \cup {[status |-> "eslOK",
                  h |-> [(IF h.is_sorted THEN Moved(h82(a)) ELSE h82(a))
                           EXCEPT !.Nalloc = Nalloc]] : a \in Addrs}

p7_tophits_Grow(l) ==
  /\ err = "none"
  /\ th[l].st = "live"
  /\ 2 * th[l].Nalloc <= MaxNalloc \/ th[l].N < th[l].Nalloc
  /\ \E o \in GrowOutcomes(th[l]) :
       Step(o.status, [th EXCEPT ![l] = o.h], heap, NoHandle, pli, "none")

\* ---------------------------------------------------------------- CreateNextHit
\* The values lines 127-150 assign.
InitHit == [name |-> NULL, acc |-> NULL, desc |-> NULL, sortkey |-> 0, score |-> 0,
            pvalue |-> 0, ndom |-> 0, is_reported |-> FALSE, nreported |-> 0,
            best_domain |-> -1, dcl |-> NULL, undef |-> {}]

\* Lines 125 and 223 without the test of N: every append clears the flag.
SortedAfterAppendCleared(h, n) == FALSE

\* is_sorted after an append that made the list hold n records.
SortedAfterAppend(h, n) == IF n >= 2 THEN FALSE ELSE h.is_sorted

\* CreateNextHit without line 150: the slot keeps the dcl it held.
CreateNextHitOutcomesKeepsDcl(h) ==
  {IF g.status # "eslOK" THEN [status |-> g.status, h |-> g.h, ret |-> -1]
   ELSE [status |-> "eslOK",
         h |-> [g.h EXCEPT !.unsrt[h.N + 1] =
                             [InitHit EXCEPT !.dcl = g.h.unsrt[h.N + 1].dcl,
                                             !.undef = g.h.unsrt[h.N + 1].undef \cap {"dcl"}],
                           !.N = h.N + 1,
                           !.is_sorted = SortedAfterAppend(g.h, h.N + 1)],
         ret |-> h.N]
   : g \in GrowOutcomes(h)}

\* The outcomes of p7_tophits_CreateNextHit on list record h; ret is the slot
\* *ret_hit points at, -1 for NULL.
CreateNextHitOutcomes(h) ==
  {IF g.status # "eslOK" THEN [status |-> g.status, h |-> g.h, ret |-> -1]
   ELSE [status |-> "eslOK",
         h |-> [g.h EXCEPT !.unsrt[h.N + 1] = InitHit,
                           !.N = h.N + 1,
                           !.is_sorted = SortedAfterAppend(g.h, h.N + 1)],
         ret |-> h.N]
   : g \in GrowOutcomes(h)}

p7_tophits_CreateNextHit(l) ==
  /\ err = "none"
  /\ th[l].st = "live"
  /\ TotalN < MaxN
  /\ 2 * th[l].Nalloc <= MaxNalloc \/ th[l].N < th[l].Nalloc
  /\ \E o \in CreateNextHitOutcomes(th[l]) :
       Step(o.status, [th EXCEPT ![l] = o.h], heap,
            IF o.ret < 0 THEN NoHandle ELSE [h |-> l, idx |-> o.ret], pli, "none")

\* What a caller writes through the handle CreateNextHit returned: a name,
\* the sortkey and score, and ndom sub-records with their alignment displays.
\* Sub-record d (counted from 0) of ndom has bitscore ndom - 1 - d and
\* pvalue 1.
FillInputs == {[sortkey |-> 0, ndom |-> 1, best_domain |-> 0, name |-> "long-name"],
               [sortkey |-> 1, ndom |-> 2, best_domain |-> 1, name |-> "c"]}

FillHit(l) ==
  /\ err = "none"
  /\ ret_hit.h = l
  /\ th[l].st = "live"
  /\ \E in \in FillInputs :
       /\ Cardinality(FreeIds(heap)) >= 2 + in.ndom
       /\ LET ids == NewIds(FreeIds(heap), 2 + in.ndom)
              doms == [d \in 1..in.ndom |->
                         [bitscore |-> in.ndom - d, pvalue |-> 1, is_reported |-> FALSE,
                          ad |-> ids[2 + d]]]
              hp == [id \in 1..HeapSize |->
                       IF id = ids[1] THEN StrCell(in.name)
                       ELSE IF id = ids[2] THEN DclCell(doms)
                       ELSE IF \E d \in 1..in.ndom : id = ids[2 + d] THEN AdCell
                       ELSE heap[id]]
              r == [th[l].unsrt[ret_hit.idx + 1] EXCEPT
                      !.name = ids[1], !.sortkey = in.sortkey, !.score = in.sortkey,
                      !.pvalue = in.sortkey, !.ndom = in.ndom,
                      !.best_domain = in.best_domain, !.dcl = ids[2]]
          IN  Step("eslOK", [th EXCEPT ![l].unsrt[ret_hit.idx + 1] = r], hp,
                   NoHandle, pli, "none")

\* ---------------------------------------------------------------- Add
\* A NULL char* argument.
NoStr == "(null)"

\* esl_strdup(s, -1, &dst): status, the pointer stored in dst, the heap.
esl_strdup(hp, s) ==
  IF s = NoStr THEN {[status |-> "eslOK", p |-> NULL, hp |-> hp]}
  ELSE {[status |-> "eslEMEM", p |-> NULL, hp |-> hp]}
       \cup (IF FreeIds(hp) = {} THEN {}
             ELSE LET id == NewIds(FreeIds(hp), 1)[1]
                  IN  {[status |-> "eslOK", p |-> id, hp |-> [hp EXCEPT ![id] = StrCell(s)]]})

AddInputs == {[name |-> "a", acc |-> NoStr, desc |-> NoStr, sortkey |-> 0],
              [name |-> "b", acc |-> "x", desc |-> "y", sortkey |-> 1]}

\* The outcomes of p7_tophits_Add on list record h with heap hp.
AddOutcomes(h, hp, in) ==
  LET n == h.N + 1
      Out(st, a, b) == [status |-> st, h |-> a, hp |-> b] IN
  UNION {
    IF g.status # "eslOK" THEN {Out(g.status, g.h, hp)}
    ELSE UNION {
      LET h1 == [g.h EXCEPT !.unsrt[n].name = s1.p,
                            !.unsrt[n].undef = @ \ {"name"}] IN
      IF s1.status # "eslOK" THEN {Out(s1.status, h1, s1.hp)}
      ELSE UNION {
        LET h2 == [h1 EXCEPT !.unsrt[n].acc = s2.p,
                             !.unsrt[n].undef = @ \ {"acc"}] IN
        IF s2.status # "eslOK" THEN {Out(s2.status, h2, s2.hp)}
        ELSE {
          LET h3 == [h2 EXCEPT !.unsrt[n].desc = s3.p,
                               !.unsrt[n].undef = @ \ {"desc"}] IN
          IF s3.status # "eslOK" THEN Out(s3.status, h3, s3.hp)
          ELSE Out("eslOK",
                   [h3 EXCEPT !.unsrt[n].sortkey = in.sortkey,
                              !.unsrt[n].score = in.sortkey,
                              !.unsrt[n].pvalue = in.sortkey,
                              !.unsrt[n].undef = @ \ {"sortkey", "score", "pvalue"},
                              !.N = n,
                              !.is_sorted = SortedAfterAppend(h3, n)],
                   s3.hp)
          : s3 \in esl_strdup(s2.hp, in.desc) }
        : s2 \in esl_strdup(s1.hp, in.acc) }
      : s1 \in esl_strdup(hp, in.name) }
    : g \in GrowOutcomes(h) }

p7_tophits_Add(l) ==
  /\ err = "none"
  /\ th[l].st = "live"
  /\ TotalN < MaxN
  /\ 2 * th[l].Nalloc <= MaxNalloc \/ th[l].N < th[l].Nalloc
  /\ \E in \in AddInputs : \E o \in AddOutcomes(th[l], heap, in) :
       Step(o.status, [th EXCEPT ![l] = o.h], o.hp, NoHandle, pli, "none")

\* ---------------------------------------------------------------- Sort
\* hit_sorter with the comparisons the other way round: ascending order.
hit_sorterAscending(u, i, j) ==
  IF u[i].sortkey < u[j].sortkey THEN -1
  ELSE IF u[i].sortkey > u[j].sortkey THEN 1
  ELSE 0

\* hit_sorter on the records at slots i and j (1-based) of storage u.
hit_sorter(u, i, j) ==
  IF u[i].sortkey < u[j].sortkey THEN 1
  ELSE IF u[i].sortkey > u[j].sortkey THEN -1
  ELSE 0

Perms(n) == {f \in [1..n -> 1..n] : \A i, j \in 1..n : i # j => f[i] # f[j]}

\* qsort with hit_sorter: any arrangement the comparison accepts (qsort is
\* not stable, records of equal sortkey come out in any order).
QsortResults(u, n) ==
  {f \in Perms(n) : \A i, j \in 1..n : i < j => hit_sorter(u, f[i], f[j]) <= 0}

\* Sort that moves the records in storage into rank order and lets the view
\* follow the storage.
SortOutcomesInPlace(h) ==
  IF h.is_sorted THEN {h}
  ELSE {[h EXCEPT !.unsrt = [i \in 1..Len(h.unsrt) |->
                               IF i <= h.N THEN h.unsrt[f[i]] ELSE h.unsrt[i]],
                  !.hit = [k \in 1..Len(h.hit) |->
                             IF k <= h.N THEN Ptr(h.base, k - 1) ELSE h.hit[k]],
                  !.is_sorted = TRUE] : f \in QsortResults(h.unsrt, h.N)}

\* Sort without line 253: the view is rebuilt and sorted on every call.
SortOutcomesAlways(h) ==
  {[h EXCEPT !.hit = [k \in 1..Len(h.hit) |->
                        IF k <= h.N THEN Ptr(h.base, f[k] - 1) ELSE h.hit[k]],
             !.is_sorted = TRUE] : f \in QsortResults(h.unsrt, h.N)}

\* The outcomes of p7_tophits_Sort on list record h.
SortOutcomes(h) ==
  IF h.is_sorted THEN {h}
  ELSE {[h EXCEPT !.hit = [k \in 1..Len(h.hit) |->
                             IF k <= h.N THEN Ptr(h.base, f[k] - 1) ELSE h.hit[k]],
                  !.is_sorted = TRUE] : f \in QsortResults(h.unsrt, h.N)}

p7_tophits_Sort(l) ==
  /\ err = "none"
  /\ th[l].st = "live"
  /\ \E g \in SortOutcomes(th[l]) :
       Step("eslOK", [th EXCEPT ![l] = g], heap, NoHandle, pli, "none")

\* ---------------------------------------------------------------- Merge
\* A view entry that points at a slot of the list's current storage.
Valid(h, p) == p # Wild /\ p.blk = h.base /\ p.idx < Len(h.unsrt)

\* Whether field f can be read through view entry p of list h.
Readable(h, p, f) == Valid(h, p) /\ f \notin h.unsrt[p.idx + 1].undef

\* The sortkeys read through the first n entries of view v of list h: the
\* record's sortkey where the entry is valid and the field was written, any
\* value where the read is undefined.
KeyReads(h, v, n) ==
  {f \in [1..n -> Keys \cup {h.unsrt[i].sortkey : i \in 1..Len(h.unsrt)}] :
     \A k \in 1..n : Readable(h, v[k], "sortkey") => f[k] = h.unsrt[v[k].idx + 1].sortkey}

\* The merge loop with the comparison >= in place of >.
RECURSIVE MergeLoopDonorOnTies(_, _, _, _, _, _)
MergeLoopDonorOnTies(p1, p2, k1, k2, i, j) ==
  IF i <= Len(p1) /\ j <= Len(p2)
  THEN IF k2[j] >= k1[i]
       THEN <<p2[j]>> \o MergeLoopDonorOnTies(p1, p2, k1, k2, i, j + 1)
       ELSE <<p1[i]>> \o MergeLoopDonorOnTies(p1, p2, k1, k2, i + 1, j)
  ELSE IF i <= Len(p1) THEN <<p1[i]>> \o MergeLoopDonorOnTies(p1, p2, k1, k2, i + 1, j)
  ELSE IF j <= Len(p2) THEN <<p2[j]>> \o MergeLoopDonorOnTies(p1, p2, k1, k2, i, j + 1)
  ELSE <<>>

\* The merge loop that copies the rest of the recipient's entries, once the
\* donor's are used up, from the last to the first.
RECURSIVE MergeLoopRestReversed(_, _, _, _, _, _)
MergeLoopRestReversed(p1, p2, k1, k2, i, j) ==
  IF i <= Len(p1) /\ j <= Len(p2)
  THEN IF k2[j] > k1[i]
       THEN <<p2[j]>> \o MergeLoopRestReversed(p1, p2, k1, k2, i, j + 1)
       ELSE <<p1[i]>> \o MergeLoopRestReversed(p1, p2, k1, k2, i + 1, j)
  ELSE IF i <= Len(p1) THEN [m \in 1..(Len(p1) - i + 1) |-> p1[Len(p1) - m + 1]]
  ELSE IF j <= Len(p2) THEN <<p2[j]>> \o MergeLoopRestReversed(p1, p2, k1, k2, i, j + 1)
  ELSE <<>>

\* Lines 304-307: the merged view from the recipient's entries p1 and the
\* donor's entries p2, with k1 and k2 the sortkeys read through them; i and j
\* are the next entries (1-based).
RECURSIVE MergeLoop(_, _, _, _, _, _)
MergeLoop(p1, p2, k1, k2, i, j) ==
  IF i <= Len(p1) /\ j <= Len(p2)
  THEN IF k2[j] > k1[i]
       THEN <<p2[j]>> \o MergeLoop(p1, p2, k1, k2, i, j + 1)
       ELSE <<p1[i]>> \o MergeLoop(p1, p2, k1, k2, i + 1, j)
  ELSE IF i <= Len(p1) THEN <<p1[i]>> \o MergeLoop(p1, p2, k1, k2, i + 1, j)
  ELSE IF j <= Len(p2) THEN <<p2[j]>> \o MergeLoop(p1, p2, k1, k2, i, j + 1)
  ELSE <<>>

\* Whether the comparisons of line 305 read through an entry that is not
\* readable (ok1[i], ok2[j] tell which are).
RECURSIVE MergeReadsBad(_, _, _, _, _, _)
MergeReadsBad(ok1, ok2, k1, k2, i, j) ==
  IF i <= Len(ok1) /\ j <= Len(ok2)
  THEN \/ ~ok1[i]
       \/ ~ok2[j]
       \/ IF k2[j] > k1[i] THEN MergeReadsBad(ok1, ok2, k1, k2, i, j + 1)
          ELSE MergeReadsBad(ok1, ok2, k1, k2, i + 1, j)
  ELSE FALSE

\* The outcomes of p7_tophits_Merge(h1, h2) on list records: the status and
\* the two lists afterwards, or err = "crash" where a read through a pointer
\* that is not readable faults.
MergeOutcomes(h1in, h2in) ==
  LET Nalloc == h1in.Nalloc + h2in.Nalloc
      ori1   == h1in.base
      Out(st, a, b, e) == [status |-> st, h1 |-> a, h2 |-> b, err |-> e]
  IN UNION {UNION {
       LET N1 == h1.N
           N2 == h2.N
           r294(a) == [h1 EXCEPT !.unsrt = Pad(h1.unsrt, Nalloc, RawHit), !.base = a]
           Done(a, k1, k2) ==
             LET hit1 == [k \in 1..N1 |-> Rebase(h1.hit[k], ori1, a)]
                 \* new2 + (h2->hit[j] - h2->unsrt)
                 hit2 == [k \in 1..N2 |->
                            IF Valid(h2, h2.hit[k]) THEN Ptr(a, N1 + h2.hit[k].idx)
                            ELSE Wild]
                 u    == [i \in 1..Nalloc |->
                            IF i > N1 /\ i <= N1 + N2 THEN h2.unsrt[i - N1]
                            ELSE r294(a).unsrt[i]]
                 new_hit == MergeLoop(hit1, hit2, k1, k2, 1, 1)
                 g1   == [r294(a) EXCEPT !.unsrt = u,
                                         !.hit = Pad(new_hit, Nalloc, Wild),
                                         !.Nalloc = Nalloc,
                                         !.N = N1 + N2]
                 g2   == [h2 EXCEPT !.unsrt = [i \in 1..Len(h2.unsrt) |->
                             IF i <= N2
                             THEN [h2.unsrt[i] EXCEPT !.name = NULL, !.acc = NULL,
                                     !.desc = NULL,
                                     !.undef = @ \ {"name", "acc", "desc"}]
                             ELSE h2.unsrt[i]],
                                    !.st = "donor"]
                 ok1  == [k \in 1..N1 |-> Readable(g1, hit1[k], "sortkey")]
                 ok2  == [k \in 1..N2 |-> Readable(h2, h2.hit[k], "sortkey")]
             IN  {Out("eslOK", g1, g2, "none")}
                 \cup (IF MergeReadsBad(ok1, ok2, k1, k2, 1, 1)
                       THEN {Out("eslOK", h1, h2, "crash")} ELSE {})
       IN  {Out("eslEMEM", h1, h2, "none")}                       \* line 294 fails
           \cup {Out("eslEMEM", r294(a), h2, "none") : a \in Addrs} \* line 295 fails
           \cup UNION {UNION {UNION {Done(a, k1, k2) :
                          k1 \in KeyReads(r294(a),
                                          [k \in 1..N1 |-> Rebase(h1.hit[k], ori1, a)], N1)} :
                          k2 \in KeyReads(h2, h2.hit, N2)} : a \in Addrs}
     : h2 \in SortOutcomes(h2in)} : h1 \in SortOutcomes(h1in)}

p7_tophits_Merge(l1, l2) ==
  /\ err = "none"
  /\ l1 # l2
  /\ th[l1].st = "live" /\ th[l2].st = "live"
  /\ th[l1].Nalloc + th[l2].Nalloc <= MaxNalloc
  /\ \E o \in MergeOutcomes(th[l1], th[l2]) :
       Step(o.status, [th EXCEPT ![l1] = o.h1, ![l2] = o.h2], heap, NoHandle, pli, o.err)

\* ---------------------------------------------------------------- Reuse, Destroy
\* free() of the cells ids, in order; bad when one of them is not allocated
\* any more (it was freed before).
RECURSIVE FreeSeq(_, _)
FreeSeq(hp, ids) ==
  IF ids = <<>> THEN [hp |-> hp, bad |-> FALSE]
  ELSE IF ~hp[Head(ids)].live THEN [hp |-> hp, bad |-> TRUE]
  ELSE FreeSeq([hp EXCEPT ![Head(ids)].live = FALSE], Tail(ids))

NonNull(x) == x # NULL

\* The cells lines 379-386 (409-416) free for record r, in order.
HitFrees(hp, r) ==
  SelectSeq(<<r.name, r.acc, r.desc>>, NonNull)
  \o (IF r.dcl # NULL
      THEN SelectSeq([j \in 1..r.ndom |-> hp[r.dcl].dom[j].ad], NonNull) \o <<r.dcl>>
      ELSE <<>>)

RECURSIVE FreeHits(_, _, _, _)
FreeHits(hp, u, i, n) ==
  IF i > n THEN [hp |-> hp, bad |-> FALSE]
  ELSE LET f == FreeSeq(hp, HitFrees(hp, u[i])) IN
       IF f.bad THEN f ELSE FreeHits(f.hp, u, i + 1, n)

\* Whether the loop over the records tests a dcl field nobody wrote.
ReadsUndefDcl(h) == \E i \in 1..h.N : "dcl" \in h.unsrt[i].undef

\* The outcomes of p7_tophits_Reuse on list record h with heap hp.  A dcl
\* field nobody wrote reads as NULL or as a pointer that faults.
ReuseOutcomes(h, hp) ==
  LET f == FreeHits(hp, h.unsrt, 1, h.N)
      Out(a, b, e) == [h |-> a, hp |-> b, err |-> e]
  IN  (IF f.bad THEN {Out(h, hp, "double_free")}
       ELSE {Out([h EXCEPT !.N = 0, !.is_sorted = TRUE, !.hit[1] = Ptr(h.base, 0)],
                 f.hp, "none")})
      \cup (IF ReadsUndefDcl(h) THEN {Out(h, hp, "crash")} ELSE {})

p7_tophits_Reuse(l) ==
  /\ err = "none"
  /\ th[l].st = "live"
  /\ \E o \in ReuseOutcomes(th[l], heap) :
       Step("eslOK", [th EXCEPT ![l] = o.h], o.hp, NoHandle, pli, o.err)

\* The outcomes of p7_tophits_Destroy on list record h with heap hp.
DestroyOutcomes(h, hp) ==
  LET f == FreeHits(hp, h.unsrt, 1, h.N)
      Out(a, b, e) == [h |-> a, hp |-> b, err |-> e]
  IN  (IF f.bad THEN {Out(h, hp, "double_free")}
       ELSE {Out(NoList, f.hp, "none")})
      \cup (IF ReadsUndefDcl(h) THEN {Out(h, hp, "crash")} ELSE {})

p7_tophits_Destroy(l) ==
  /\ err = "none"
  /\ th[l].st \in {"live", "donor"}
  /\ \E o \in DestroyOutcomes(th[l], heap) :
       Step("eslOK", [th EXCEPT ![l] = o.h], o.hp, NoHandle, pli, o.err)

\* ---------------------------------------------------------------- Threshold
\* p7_pli_TargetReportable with a score threshold: a score is reportable
\* when it reaches the pipeline's threshold.
p7_pli_TargetReportable(p, score, pvalue) == score >= p.T
\* p7_pli_DomainReportable: by E-value, pvalue * domZ within domE; by
\* score, the bit score reaches domT.
p7_pli_DomainReportable(p, bitscore, pvalue) ==
  IF p.dom_by_E THEN pvalue * p.domZ <= p.domE ELSE bitscore >= p.domT

\* A pipeline with score thresholds T and dt for targets and sub-records.
ByScore(t, dt, z, dz) ==
  [T |-> t, dom_by_E |-> FALSE, domT |-> dt, domE |-> 0, domZ_setby |-> z, domZ |-> dz]

\* The pipelines Threshold is called with: both score thresholds at the low
\* and at the high end of the scores, domZ set by the number of targets or
\* by an option; and one with an E-value threshold for sub-records, which
\* a sub-record meets when domZ is at most 1.
PliInputs ==
  {ByScore(0, 1, "p7_ZSETBY_NTARGETS", 0),
   ByScore(1, 2, "p7_ZSETBY_NTARGETS", 0),
   ByScore(0, 2, "p7_ZSETBY_OPTION", 3),
   ByScore(1, 1, "p7_ZSETBY_OPTION", 3),
   [T |-> 0, dom_by_E |-> TRUE, domT |-> 0, domE |-> 1,
    domZ_setby |-> "p7_ZSETBY_NTARGETS", domZ |-> 3]}

\* Lines 452-459, from view entry k on, on storage u with cnt records counted
\* so far.  Where the score cannot be read through the entry, b[k] is the
\* predicate's value on what is read instead, and the flag is written
\* outside the list's records.
RECURSIVE FirstPass(_, _, _, _, _, _)
FirstPass(h, p, b, k, u, cnt) ==
  IF k > h.N THEN [u |-> u, cnt |-> cnt]
  ELSE LET e == h.hit[k] IN
       IF Readable(h, e, "score")
       THEN IF p7_pli_TargetReportable(p, u[e.idx + 1].score, u[e.idx + 1].pvalue)
            THEN FirstPass(h, p, b, k + 1,
                           [u EXCEPT ![e.idx + 1].is_reported = TRUE,
                                     ![e.idx + 1].undef = @ \ {"is_reported"}],
                           cnt + 1)
            ELSE FirstPass(h, p, b, k + 1, u, cnt)
       ELSE FirstPass(h, p, b, k + 1, u, IF b[k] THEN cnt + 1 ELSE cnt)

\* Whether the second pass can classify the sub-records of record r: its
\* is_reported and ndom fields were written and dcl points at ndom
\* sub-records.
HasDomains(hp, r) ==
  /\ {"is_reported", "ndom", "best_domain", "nreported", "dcl"} \cap r.undef = {}
  /\ r.ndom > 0 => (r.dcl # NULL /\ Len(hp[r.dcl].dom) >= r.ndom)

\* The loop over sub-records without the best_domain test.
RECURSIVE DomainLoopPredicateOnly(_, _, _, _)
DomainLoopPredicateOnly(p, r, dom, d) ==
  IF d > r.ndom THEN [r |-> r, dom |-> dom]
  ELSE IF p7_pli_DomainReportable(p, dom[d].bitscore, dom[d].pvalue)
  THEN DomainLoopPredicateOnly(p, [r EXCEPT !.nreported = @ + 1],
                               [dom EXCEPT ![d].is_reported = TRUE], d + 1)
  ELSE DomainLoopPredicateOnly(p, r, dom, d + 1)

\* Lines 470-478 for record r and its sub-record array dom, from sub-record
\* d (1-based) on.
RECURSIVE DomainLoop(_, _, _, _)
DomainLoop(p, r, dom, d) ==
  IF d > r.ndom THEN [r |-> r, dom |-> dom]
  ELSE IF r.best_domain = d - 1 \/ p7_pli_DomainReportable(p, dom[d].bitscore, dom[d].pvalue)
  THEN DomainLoop(p, [r EXCEPT !.nreported = @ + 1],
                  [dom EXCEPT ![d].is_reported = TRUE], d + 1)
  ELSE DomainLoop(p, r, dom, d + 1)

\* Lines 468-478, from view entry k on.  An entry or a field that cannot be
\* read makes the pass skip the record.
RECURSIVE SecondPass(_, _, _, _, _)
SecondPass(h, p, k, u, hp) ==
  IF k > h.N THEN [u |-> u, hp |-> hp]
  ELSE LET e == h.hit[k]
           r == u[e.idx + 1] IN
       IF Valid(h, e) /\ HasDomains(hp, r) /\ r.is_reported /\ r.ndom > 0
       THEN LET o == DomainLoop(p, r, hp[r.dcl].dom, 1) IN
            SecondPass(h, p, k + 1, [u EXCEPT ![e.idx + 1] = o.r],
                       [hp EXCEPT ![r.dcl].dom = o.dom])
       ELSE SecondPass(h, p, k + 1, u, hp)

\* Whether Threshold reads or writes through a view entry that is not
\* readable, tests a field nobody wrote, or reaches sub-records in memory
\* that was freed; u is the storage after the first pass.
ThresholdReadsBad(h, u, hp) ==
  \E k \in 1..h.N :
    LET e == h.hit[k] IN
    \/ ~Readable(h, e, "score")
    \/ LET r == u[e.idx + 1] IN
       \/ "is_reported" \in r.undef
       \/ r.is_reported /\ ~HasDomains(hp, r)
       \/ r.is_reported /\ r.ndom > 0 /\ ~hp[r.dcl].live

\* Threshold with line 462 moved behind the second pass: the sub-records
\* are classified with the domZ the caller passed in.
ThresholdOutcomesLateDomZ(h, hp, p) ==
  UNION {
    LET f  == FirstPass(h, p, b, 1, h.unsrt, 0)
        p1 == IF p.domZ_setby = "p7_ZSETBY_NTARGETS" THEN [p EXCEPT !.domZ = f.cnt] ELSE p
        s  == SecondPass(h, p, 1, f.u, hp)
        Out(a, c, q, e) == [status |-> "eslOK", h |-> a, hp |-> c, pli |-> q, err |-> e]
    IN  {Out([h EXCEPT !.nreported = f.cnt, !.unsrt = s.u], s.hp, p1, "none")}
        \cup (IF ThresholdReadsBad(h, f.u, hp) THEN {Out(h, hp, p, "crash")} ELSE {})
    : b \in {c \in [1..h.N -> BOOLEAN] :
               \A k \in 1..h.N : Readable(h, h.hit[k], "score") => ~c[k]}}

\* Threshold that keeps only the reported records in the list.
ThresholdOutcomesFiltering(h, hp, p) ==
  UNION {
    LET f  == FirstPass(h, p, b, 1, h.unsrt, 0)
        p1 == IF p.domZ_setby = "p7_ZSETBY_NTARGETS" THEN [p EXCEPT !.domZ = f.cnt] ELSE p
        s  == SecondPass(h, p1, 1, f.u, hp)
        Out(a, c, q, e) == [status |-> "eslOK", h |-> a, hp |-> c, pli |-> q, err |-> e]
    IN  {Out([h EXCEPT !.N = f.cnt, !.nreported = f.cnt, !.unsrt = s.u], s.hp, p1, "none")}
        \cup (IF ThresholdReadsBad(h, f.u, hp) THEN {Out(h, hp, p, "crash")} ELSE {})
    : b \in {c \in [1..h.N -> BOOLEAN] :
               \A k \in 1..h.N : Readable(h, h.hit[k], "score") => ~c[k]}}

\* Threshold without line 451: the count goes on from the list's count.
ThresholdOutcomesAccumulating(h, hp, p) ==
  UNION {
    LET f  == FirstPass(h, p, b, 1, h.unsrt, h.nreported)
        p1 == IF p.domZ_setby = "p7_ZSETBY_NTARGETS" THEN [p EXCEPT !.domZ = f.cnt] ELSE p
        s  == SecondPass(h, p1, 1, f.u, hp)
        Out(a, c, q, e) == [status |-> "eslOK", h |-> a, hp |-> c, pli |-> q, err |-> e]
    IN  {Out([h EXCEPT !.nreported = f.cnt, !.unsrt = s.u], s.hp, p1, "none")}
        \cup (IF ThresholdReadsBad(h, f.u, hp) THEN {Out(h, hp, p, "crash")} ELSE {})
    : b \in {c \in [1..h.N -> BOOLEAN] :
               \A k \in 1..h.N : Readable(h, h.hit[k], "score") => ~c[k]}}

\* The outcomes of p7_tophits_Threshold on list record h with heap hp and
\* pipeline p.
ThresholdOutcomes(h, hp, p) ==
  UNION {
    LET f  == FirstPass(h, p, b, 1, h.unsrt, 0)
        p1 == IF p.domZ_setby = "p7_ZSETBY_NTARGETS" THEN [p EXCEPT !.domZ = f.cnt] ELSE p
        s  == SecondPass(h, p1, 1, f.u, hp)
        Out(a, c, q, e) == [status |-> "eslOK", h |-> a, hp |-> c, pli |-> q, err |-> e]
    IN  {Out([h EXCEPT !.nreported = f.cnt, !.unsrt = s.u], s.hp, p1, "none")}
        \cup (IF ThresholdReadsBad(h, f.u, hp) THEN {Out(h, hp, p, "crash")} ELSE {})
    : b \in {c \in [1..h.N -> BOOLEAN] :
               \A k \in 1..h.N : Readable(h, h.hit[k], "score") => ~c[k]}}

\* The sub-record counters Threshold would add to stay within MaxReported.
CountersInBound(h) ==
  \A i \in 1..h.N : "nreported" \notin h.unsrt[i].undef => h.unsrt[i].nreported <= MaxReported

p7_tophits_Threshold(l) ==
  /\ err = "none"
  /\ th[l].st = "live"
  /\ th[l].is_sorted
  /\ CountersInBound(th[l])
  /\ \E p \in PliInputs : \E o \in ThresholdOutcomes(th[l], heap, p) :
       Step(o.status, [th EXCEPT ![l] = o.h], o.hp, NoHandle, o.pli, o.err)


\* ---------------------------------------------------------------- Alignment
\* The sub-records of record r flagged reported in heap hp.
ReportedDomains(hp, r) == {d \in 1..r.ndom : hp[r.dcl].dom[d].is_reported}

\* Whether the loop of lines 665-671 can count through view entry e of list
\* h: the entry is valid, is_reported was written and, for a reported record,
\* ndom was written and dcl points at ndom sub-records that are allocated.
Countable(h, hp, e) ==
  /\ Readable(h, e, "is_reported")
  /\ LET r == h.unsrt[e.idx + 1] IN
     r.is_reported =>
       /\ {"ndom", "dcl"} \cap r.undef = {}
       /\ r.ndom > 0 => (r.dcl # NULL /\ hp[r.dcl].live /\ Len(hp[r.dcl].dom) >= r.ndom)

\* Lines 665-671 from view entry k on: the number of sub-records counted.
\* Through an entry that is not countable the loop counts c[k].
RECURSIVE CountDomains(_, _, _, _)
CountDomains(h, hp, c, k) ==
  IF k > h.N THEN 0
  ELSE LET e == h.hit[k] IN
       (IF ~Countable(h, hp, e) THEN c[k]
        ELSE IF h.unsrt[e.idx + 1].is_reported
             THEN Cardinality(ReportedDomains(hp, h.unsrt[e.idx + 1]))
             ELSE 0)
       + CountDomains(h, hp, c, k + 1)

\* The heap cells lines 665-671 read: the sub-record arrays of the reported
\* records.
CountReads(h, hp) ==
  {h.unsrt[h.hit[k].idx + 1].dcl : k \in {j \in 1..h.N :
      /\ Countable(h, hp, h.hit[j])
      /\ h.unsrt[h.hit[j].idx + 1].is_reported
      /\ h.unsrt[h.hit[j].idx + 1].ndom > 0}}

\* Line 673 reads th->hit[0]->dcl[0].ad->M: the cells it reads, {} where a
\* pointer on the way is invalid or NULL.
ModelSizeReads(h, hp) ==
  IF h.N >= 1 /\ Readable(h, h.hit[1], "dcl")
  THEN LET r == h.unsrt[h.hit[1].idx + 1] IN
       IF r.dcl # NULL /\ Len(hp[r.dcl].dom) >= 1 /\ hp[r.dcl].dom[1].ad # NULL
       THEN {r.dcl, hp[r.dcl].dom[1].ad}
       ELSE {}
  ELSE {}

\* The alignment displays lines 683-693 pass to p7_alidisplay_Backconvert.
DisplayReads(h, hp) ==
  UNION {{hp[d].dom[j].ad : j \in {i \in 1..Len(hp[d].dom) : hp[d].dom[i].is_reported}}
         : d \in CountReads(h, hp)}

\* Alignment with the model size read before the count is tested.
AlignmentOutcomesReadsFirst(h, hp) ==
  UNION {
    LET n == CountDomains(h, hp, c, 1)
        m == ModelSizeReads(h, hp)
        Out(st, rm, al, rd, e) ==
          [status |-> st, ret_msa |-> rm, allocated |-> al, reads |-> rd, err |-> e]
        all == CountReads(h, hp) \cup m \cup DisplayReads(h, hp)
    IN  (IF m = {} \/ \E id \in all : ~hp[id].live
         THEN {Out("eslOK", NoMsa, FALSE, CountReads(h, hp) \cup m, "crash")} ELSE {})
        \cup (IF m = {} THEN {}
              ELSE IF n = 0 THEN {Out("eslFAIL", "NULL", FALSE, CountReads(h, hp) \cup m, "none")}
              ELSE {Out("eslOK", "msa", TRUE, all, "none"),
                    Out("eslEMEM", "NULL", TRUE, all, "none")})
    : c \in {b \in [1..h.N -> 0..1] :
               \A k \in 1..h.N : Countable(h, hp, h.hit[k]) => b[k] = 0}}

\* The outcomes of p7_tophits_Alignment on list record h with heap hp: the
\* status, *ret_msa, whether line 677 was reached, and the heap cells read.
\* A read through an invalid or freed pointer faults or goes on; a read
\* through NULL faults.  The alignment is built (eslOK) or an allocation on
\* the way fails (eslEMEM).
AlignmentOutcomes(h, hp) ==
  UNION {
    LET n == CountDomains(h, hp, c, 1)
        m == ModelSizeReads(h, hp)
        Out(st, rm, al, rd, e) ==
          [status |-> st, ret_msa |-> rm, allocated |-> al, reads |-> rd, err |-> e]
        all == CountReads(h, hp) \cup m \cup DisplayReads(h, hp)
    IN  IF n = 0
        THEN {Out("eslFAIL", "NULL", FALSE, CountReads(h, hp), "none")}
             \cup (IF \E k \in 1..h.N : ~Countable(h, hp, h.hit[k])
                   THEN {Out("eslOK", NoMsa, FALSE, CountReads(h, hp), "crash")} ELSE {})
        ELSE (IF m = {} \/ (\E id \in all : ~hp[id].live)
                 \/ (\E k \in 1..h.N : ~Countable(h, hp, h.hit[k]))
              THEN {Out("eslOK", NoMsa, FALSE, CountReads(h, hp) \cup m, "crash")} ELSE {})
             \cup (IF m = {} THEN {}
                   ELSE {Out("eslOK", "msa", TRUE, all, "none"),
                         Out("eslEMEM", "NULL", TRUE, all, "none")})
    : c \in {b \in [1..h.N -> 0..1] :
               \A k \in 1..h.N : Countable(h, hp, h.hit[k]) => b[k] = 0}}

p7_tophits_Alignment(l) ==
  /\ err = "none"
  /\ th[l].st = "live"
  /\ \E o \in AlignmentOutcomes(th[l], heap) :
       Return(o.status, th, heap, NoHandle, pli, o.ret_msa, o.err)

\* ---------------------------------------------------------------- Scenario
\* The records of the scenario, sortkeys in tenths: a 0.5, b 10.0 and c 0.1
\* go to list 1, top 20.0 and bottom -1.0 to list 2.
Hit(name, tenths) == [name |-> name, acc |-> NoStr, desc |-> NoStr, sortkey |-> tenths]

ScenarioHits(l) ==
  IF l = 1 THEN {Hit("a", 5), Hit("b", 100), Hit("c", 1)}
  ELSE {Hit("top", 200), Hit("bottom", -10)}

\* The names of the records of h, in storage order.
Names(hp, h) == {hp[h.unsrt[i].name].str : i \in 1..h.N}

ScenarioCreate(l) ==
  /\ err = "none"
  /\ th[l].st = "none"
  /\ \E o \in CreateOutcomes :
       /\ o.status = "eslOK"
       /\ Step(o.status, [th EXCEPT ![l] = o.h], heap, NoHandle, pli, "none")

\* A record of the scenario that list l does not hold yet is added to it.
ScenarioAdd(l) ==
  /\ err = "none"
  /\ th[l].st = "live"
  /\ \E in \in ScenarioHits(l) :
       /\ in.name \notin Names(heap, th[l])
       /\ \E o \in AddOutcomes(th[l], heap, in) :
            /\ o.status = "eslOK"
            /\ Step(o.status, [th EXCEPT ![l] = o.h], o.hp, NoHandle, pli, "none")

ScenarioSort(l) ==
  /\ err = "none"
  /\ th[l].st = "live"
  /\ \E g \in SortOutcomes(th[l]) :
       Step("eslOK", [th EXCEPT ![l] = g], heap, NoHandle, pli, "none")

\* List 2 is merged into list 1 once both hold their records.
ScenarioMerge ==
  /\ err = "none"
  /\ th[1].st = "live" /\ th[2].st = "live"
  /\ th[1].N = Cardinality(ScenarioHits(1)) /\ th[2].N = Cardinality(ScenarioHits(2))
  /\ \E o \in MergeOutcomes(th[1], th[2]) :
       /\ o.status = "eslOK"
       /\ Step(o.status, [th EXCEPT ![1] = o.h1, ![2] = o.h2], heap, NoHandle, pli, o.err)

\* ---------------------------------------------------------------- GetMaxNameLength
strlen(s) == Len(s)

\* GetMaxNameLength reading the records through the view hit[0..N-1].
p7_tophits_GetMaxNameLengthOfView(hp, h) ==
  LET RECURSIVE Loop(_, _)
      Loop(i, max) ==
        IF i > h.N THEN max
        ELSE IF Valid(h, h.hit[i]) /\ h.unsrt[h.hit[i].idx + 1].name # NULL
        THEN Loop(i + 1, Max(strlen(hp[h.unsrt[h.hit[i].idx + 1].name].str), max))
        ELSE Loop(i + 1, max)
  IN  Loop(1, 0)

\* Lines 351-357: the loop over unsrt[0..N-1].
p7_tophits_GetMaxNameLength(hp, h) ==
  LET RECURSIVE Loop(_, _)
      Loop(i, max) ==
        IF i > h.N THEN max
        ELSE IF h.unsrt[i].name # NULL
        THEN Loop(i + 1, Max(strlen(hp[h.unsrt[i].name].str), max))
        ELSE Loop(i + 1, max)
  IN  Loop(1, 0)

\* ---------------------------------------------------------------- Folding lists
\* Lists are built by p7_tophits_Add, sorted and merged, every call
\* succeeding; a list takes up to MaxFold records by Add.
MaxFold == 2

\* The records added: names of different lengths and none, sortkeys that tie.
FoldInputs == {[name |-> "a", acc |-> NoStr, desc |-> NoStr, sortkey |-> 0],
               [name |-> "bb", acc |-> NoStr, desc |-> NoStr, sortkey |-> 1],
               [name |-> NoStr, acc |-> NoStr, desc |-> NoStr, sortkey |-> 1]}

FoldAdd(l) ==
  /\ err = "none"
  /\ th[l].st = "live"
  /\ th[l].N < MaxFold
  /\ \E in \in FoldInputs : \E o \in AddOutcomes(th[l], heap, in) :
       /\ o.status = "eslOK"
       /\ Step(o.status, [th EXCEPT ![l] = o.h], o.hp, NoHandle, pli, "none")

FoldMerge(l1, l2) ==
  /\ err = "none"
  /\ l1 # l2
  /\ th[l1].st = "live" /\ th[l2].st = "live"
  /\ \E o \in MergeOutcomes(th[l1], th[l2]) :
       /\ o.status = "eslOK"
       /\ Step(o.status, [th EXCEPT ![l1] = o.h1, ![l2] = o.h2], heap, NoHandle, pli, o.err)

\* ---------------------------------------------------------------- Targets, Domains
INT_MAX == 2147483647

\* The line widths textw a caller passes: none, one that leaves the
\* description its minimum of 32 columns, and one that leaves it more.
TextWidths == {0, 80, 120}

\* The flag the loops of lines 527-528 and 568-569 read through view entry k
\* of list h: c[k] where the read is undefined.
EntryFlag(h, c, k) ==
  IF Readable(h, h.hit[k], "is_reported") THEN h.unsrt[h.hit[k].idx + 1].is_reported
  ELSE c[k]

\* The ranks 1..n whose flag f[k] is set, in rank order from k on.
RECURSIVE Picked(_, _, _)
Picked(f, k, n) ==
  IF k > n THEN <<>> ELSE (IF f[k] THEN <<k>> ELSE <<>>) \o Picked(f, k + 1, n)

\* Whether lines 528-541 can print what view entry e of list h refers to:
\* the flag can be read and, for a reported record, the fields printed were
\* written, the name is a string, and dcl[best_domain] is a sub-record in
\* allocated memory.
TargetPrintable(h, hp, e) ==
  /\ Readable(h, e, "is_reported")
  /\ LET r == h.unsrt[e.idx + 1] IN
     r.is_reported =>
       /\ {"best_domain", "dcl", "name", "desc", "score", "pvalue", "nreported"} \cap r.undef = {}
       /\ r.name # NULL /\ hp[r.name].live
       /\ r.desc # NULL => hp[r.desc].live
       /\ r.dcl # NULL /\ hp[r.dcl].live
       /\ r.best_domain >= 0 /\ r.best_domain < Len(hp[r.dcl].dom)

\* Whether lines 569-623 can print what view entry e of list h refers to:
\* for a reported record the name is a string, dcl holds ndom sub-records
\* and each reported sub-record has its alignment display.
DomainPrintable(h, hp, e) ==
  /\ Readable(h, e, "is_reported")
  /\ LET r == h.unsrt[e.idx + 1] IN
     r.is_reported =>
       /\ {"ndom", "dcl", "name", "desc"} \cap r.undef = {}
       /\ r.name # NULL /\ hp[r.name].live
       /\ r.desc # NULL => hp[r.desc].live
       /\ r.ndom > 0 =>
            /\ r.dcl # NULL /\ hp[r.dcl].live /\ Len(hp[r.dcl].dom) >= r.ndom
            /\ \A d \in 1..r.ndom :
                 hp[r.dcl].dom[d].is_reported =>
                   (hp[r.dcl].dom[d].ad # NULL /\ hp[hp[r.dcl].dom[d].ad].live)

\* The slot view entry k of list h refers to, 0 where it refers to none.
EntrySlot(h, k) == IF Valid(h, h.hit[k]) THEN h.hit[k].idx + 1 ELSE 0

\* Line 517 and line 572: the width left for the description.
DescWidth(textw, namew, fixed) ==
  IF textw > 0 THEN Max(32, textw - namew - fixed) ELSE INT_MAX

\* Targets with the name column as wide as the longest name of a reported
\* record.
TargetsOutcomesReportedNames(h, hp, textw) ==
  UNION {
    LET ks    == Picked([k \in 1..h.N |-> EntryFlag(h, c, k)], 1, h.N)
        rep   == [h EXCEPT !.unsrt = [i \in 1..Len(h.unsrt) |->
                    IF "is_reported" \notin h.unsrt[i].undef /\ h.unsrt[i].is_reported
                    THEN h.unsrt[i]
                    ELSE [h.unsrt[i] EXCEPT !.name = NULL]]]
        namew == Max(8, p7_tophits_GetMaxNameLength(hp, rep))
        descw == DescWidth(textw, namew, 59)
        Line(k) ==
          [slot |-> EntrySlot(h, k), namew |-> namew, descw |-> descw,
           rows |-> IF TargetPrintable(h, hp, h.hit[k])
                    THEN <<h.unsrt[h.hit[k].idx + 1].best_domain + 1>> ELSE <<>>]
        out == [op |-> "Targets", namew |-> namew, descw |-> descw,
                entries |-> [j \in 1..Len(ks) |-> Line(ks[j])],
                sentinel |-> h.nreported = 0]
    IN  {[status |-> "eslOK", out |-> out, err |-> "none"]}
        \cup (IF \E k \in 1..h.N : ~TargetPrintable(h, hp, h.hit[k])
              THEN {[status |-> "eslOK", out |-> NoOutput, err |-> "crash"]} ELSE {})
    : c \in {b \in [1..h.N -> BOOLEAN] :
               \A k \in 1..h.N : Readable(h, h.hit[k], "is_reported") => ~b[k]}}

\* The outcomes of p7_tophits_Targets on list record h with heap hp and
\* line width textw: the widths of the name and description columns, one
\* entry per line of the table (the slot printed and the sub-record printed
\* with it) and whether the sentinel line of line 544 was printed.  A read
\* through an invalid, NULL or freed pointer faults or prints on.
TargetsOutcomes(h, hp, textw) ==
  UNION {
    LET ks    == Picked([k \in 1..h.N |-> EntryFlag(h, c, k)], 1, h.N)
        namew == Max(8, p7_tophits_GetMaxNameLength(hp, h))
        descw == DescWidth(textw, namew, 59)
        Line(k) ==
          [slot |-> EntrySlot(h, k), namew |-> namew, descw |-> descw,
           rows |-> IF TargetPrintable(h, hp, h.hit[k])
                    THEN <<h.unsrt[h.hit[k].idx + 1].best_domain + 1>> ELSE <<>>]
        out == [op |-> "Targets", namew |-> namew, descw |-> descw,
                entries |-> [j \in 1..Len(ks) |-> Line(ks[j])],
                sentinel |-> h.nreported = 0]
    IN  {[status |-> "eslOK", out |-> out, err |-> "none"]}
        \cup (IF \E k \in 1..h.N : ~TargetPrintable(h, hp, h.hit[k])
              THEN {[status |-> "eslOK", out |-> NoOutput, err |-> "crash"]} ELSE {})
    : c \in {b \in [1..h.N -> BOOLEAN] :
               \A k \in 1..h.N : Readable(h, h.hit[k], "is_reported") => ~b[k]}}

p7_tophits_Targets(l) ==
  /\ err = "none"
  /\ th[l].st = "live"
  /\ \E textw \in TextWidths : \E o \in TargetsOutcomes(th[l], heap, textw) :
       Output(o.out, o.err)

\* The outcomes of p7_tophits_Domains: one entry per record printed, with
\* the widths of lines 571-572 and the rows of its table (the sub-records
\* flagged reported, in order), and whether the sentinel line of line 625
\* was printed.
DomainsOutcomes(h, hp, textw) ==
  UNION {
    LET ks == Picked([k \in 1..h.N |-> EntryFlag(h, c, k)], 1, h.N)
        Line(k) ==
          IF DomainPrintable(h, hp, h.hit[k])
          THEN LET r == h.unsrt[h.hit[k].idx + 1]
                   namew == strlen(hp[r.name].str)
               IN  [slot |-> EntrySlot(h, k), namew |-> namew,
                    descw |-> DescWidth(textw, namew, 5),
                    rows |-> IF r.ndom > 0
                             THEN Picked([d \in 1..r.ndom |-> hp[r.dcl].dom[d].is_reported],
                                         1, r.ndom)
                             ELSE <<>>]
          ELSE [slot |-> EntrySlot(h, k), namew |-> 0, descw |-> 0, rows |-> <<>>]
        out == [op |-> "Domains", namew |-> 0, descw |-> 0,
                entries |-> [j \in 1..Len(ks) |-> Line(ks[j])],
                sentinel |-> h.nreported = 0]
    IN  {[status |-> "eslOK", out |-> out, err |-> "none"]}
        \cup (IF \E k \in 1..h.N : ~DomainPrintable(h, hp, h.hit[k])
              THEN {[status |-> "eslOK", out |-> NoOutput, err |-> "crash"]} ELSE {})
    : c \in {b \in [1..h.N -> BOOLEAN] :
               \A k \in 1..h.N : Readable(h, h.hit[k], "is_reported") => ~b[k]}}

p7_tophits_Domains(l) ==
  /\ err = "none"
  /\ th[l].st = "live"
  /\ \E textw \in TextWidths : \E o \in DomainsOutcomes(th[l], heap, textw) :
       Output(o.out, o.err)
Init ==
  /\ th = [l \in Lists |-> NoList]
  /\ heap = [id \in 1..HeapSize |-> FreeCell]
  /\ pli = NoPli
  /\ ret_hit = NoHandle
  /\ ret_msa = NoMsa
  /\ ofp = NoOutput
  /\ err = "none"
  /\ faults = 0

\* The list operations without the callers' own writes into records.
Next ==
  \/ \E l \in Lists : p7_tophits_Create(l)
  \/ \E l \in Lists : p7_tophits_Grow(l)
  \/ \E l \in Lists : p7_tophits_CreateNextHit(l)
  \/ \E l \in Lists : p7_tophits_Add(l)
  \/ \E l \in Lists : p7_tophits_Sort(l)
  \/ \E l1, l2 \in Lists : p7_tophits_Merge(l1, l2)
  \/ \E l \in Lists : p7_tophits_Reuse(l)
  \/ \E l \in Lists : p7_tophits_Destroy(l)

Spec == Init /\ [][Next]_vars

\* Ownership of payload: records with sub-record arrays are built, merged
\* and freed.
NextOwn ==
  \/ \E l \in Lists : p7_tophits_Create(l)
  \/ \E l \in Lists : p7_tophits_CreateNextHit(l)
  \/ \E l \in Lists : FillHit(l)
  \/ \E l1, l2 \in Lists : p7_tophits_Merge(l1, l2)
  \/ \E l \in Lists : p7_tophits_Reuse(l)
  \/ \E l \in Lists : p7_tophits_Destroy(l)

SpecOwn == Init /\ [][NextOwn]_vars

\* Classification of the records of lists that were built, sorted and merged.
NextThreshold ==
  \/ \E l \in Lists : p7_tophits_Create(l)
  \/ \E l \in Lists : p7_tophits_CreateNextHit(l)
  \/ \E l \in Lists : FillHit(l)
  \/ \E l \in Lists : p7_tophits_Add(l)
  \/ \E l \in Lists : p7_tophits_Sort(l)
  \/ \E l1, l2 \in Lists : p7_tophits_Merge(l1, l2)
  \/ \E l \in Lists : p7_tophits_Threshold(l)

SpecThreshold == Init /\ [][NextThreshold]_vars

\* Alignment of the reported sub-records of lists that were built, merged
\* and classified.
NextAlignment ==
  \/ \E l \in Lists : p7_tophits_Create(l)
  \/ \E l \in Lists : p7_tophits_CreateNextHit(l)
  \/ \E l \in Lists : FillHit(l)
  \/ \E l1, l2 \in Lists : p7_tophits_Merge(l1, l2)
  \/ \E l \in Lists : p7_tophits_Threshold(l)
  \/ \E l \in Lists : p7_tophits_Alignment(l)

SpecAlignment == Init /\ [][NextAlignment]_vars

\* The scenario of the test driver: two lists are filled, sorted and merged,
\* every call succeeding.
NextScenario ==
  \/ \E l \in Lists : ScenarioCreate(l)
  \/ \E l \in Lists : ScenarioAdd(l)
  \/ \E l \in Lists : ScenarioSort(l)
  \/ ScenarioMerge

SpecScenario == Init /\ [][NextScenario]_vars

\* Lists built by Add are sorted and folded into one by Merge, every call
\* succeeding.
NextFold ==
  \/ \E l \in Lists : ScenarioCreate(l)
  \/ \E l \in Lists : FoldAdd(l)
  \/ \E l \in Lists : ScenarioSort(l)
  \/ \E l1, l2 \in Lists : FoldMerge(l1, l2)

SpecFold == Init /\ [][NextFold]_vars

\* The reports of a list that was built, sorted, classified and reused: a
\* report is of one list, and the lists do not interact but by Merge.
ReportedLists == {1}

NextOutput ==
  \/ \E l \in ReportedLists : p7_tophits_Create(l)
  \/ \E l \in ReportedLists : p7_tophits_CreateNextHit(l)
  \/ \E l \in ReportedLists : FillHit(l)
  \/ \E l \in ReportedLists : p7_tophits_Sort(l)
  \/ \E l \in ReportedLists : p7_tophits_Threshold(l)
  \/ \E l \in ReportedLists : p7_tophits_Reuse(l)
  \/ \E l \in ReportedLists : p7_tophits_Targets(l)
  \/ \E l \in ReportedLists : p7_tophits_Domains(l)

SpecOutput == Init /\ [][NextOutput]_vars

\* Lists that are filled by either append, reused, filled again and
\* destroyed.
NextReuse ==
  \/ \E l \in Lists : p7_tophits_Create(l)
  \/ \E l \in Lists : p7_tophits_CreateNextHit(l)
  \/ \E l \in Lists : FillHit(l)
  \/ \E l \in Lists : p7_tophits_Add(l)
  \/ \E l \in Lists : p7_tophits_Reuse(l)
  \/ \E l \in Lists : p7_tophits_Destroy(l)

SpecReuse == Init /\ [][NextReuse]_vars

\* ================================================================ properties
\* The slot (1-based) view entry k of list h points at, 0 when the entry does
\* not point into the list's storage.
SlotOf(h, k) == IF Valid(h, h.hit[k]) THEN h.hit[k].idx + 1 ELSE 0

\* The view of h names each of the N records once, in descending sortkey order.
RankedView(h) ==
  /\ \A k \in 1..h.N : SlotOf(h, k) \in 1..h.N
  /\ \A i \in 1..h.N : \E k \in 1..h.N : SlotOf(h, k) = i
  /\ \A j, k \in 1..h.N :
       j < k => h.unsrt[SlotOf(h, j)].sortkey >= h.unsrt[SlotOf(h, k)].sortkey

LiveLists == {l \in Lists : th[l].st = "live"}

\* C1: after p7_tophits_Sort returns on any list the operations can reach,
\* the view hit[0..N-1] refers to each storage slot unsrt[0..N-1] exactly
\* once and is in descending sortkey order.
C1_SortRanksView ==
  \A l \in LiveLists : \A s \in SortOutcomes(th[l]) : RankedView(s)

\* The pairs (recipient, donor) p7_tophits_Merge can be called on.
MergePairs ==
  {p \in LiveLists \X LiveLists :
     p[1] # p[2] /\ th[p[1]].Nalloc + th[p[2]].Nalloc <= MaxNalloc}

\* The outcomes of a merge that returned eslOK.
Merged(p) ==
  {o \in MergeOutcomes(th[p[1]], th[p[2]]) : o.status = "eslOK" /\ o.err = "none"}

\* The records a list holds, in storage order.
Recs(h) == [i \in 1..h.N |-> h.unsrt[i]]

\* s and t hold the same records the same number of times.
SameRecords(s, t) ==
  \A r \in {s[i] : i \in DOMAIN s} \cup {t[i] : i \in DOMAIN t} :
    Cardinality({i \in DOMAIN s : s[i] = r}) = Cardinality({i \in DOMAIN t : t[i] = r})

\* C2: a successful p7_tophits_Merge(A, B) of any two lists leaves A with
\* N+M records, its view in descending sortkey order over them, and its
\* records the multiset union of A's and B's records before the call.
C2_MergeRanksUnion ==
  \A p \in MergePairs : \A o \in MergeOutcomes(th[p[1]], th[p[2]]) :
    /\ o.err = "none"
    /\ o.status = "eslOK" =>
         /\ o.h1.N = th[p[1]].N + th[p[2]].N
         /\ RankedView(o.h1)
         /\ SameRecords(Recs(o.h1), Recs(th[p[1]]) \o Recs(th[p[2]]))

\* The heap cells the first N records of h refer to.
Owned(hp, h) ==
  {StorRefs(hp, Recs(h), 1)[k] : k \in 1..Len(StorRefs(hp, Recs(h), 1))} \ {NULL}

\* C3: after a successful Merge(A, B) the donor's name, acc, desc and dcl
\* references are all NULL, Destroy(B) frees nothing that A still refers to,
\* and Destroy(B) followed by Destroy(A) frees each payload once.
C3_DonorOwnsNothing ==
  \A p \in MergePairs : \A o \in Merged(p) :
    /\ \A i \in 1..o.h2.N :
         /\ o.h2.unsrt[i].name = NULL /\ o.h2.unsrt[i].acc = NULL
         /\ o.h2.unsrt[i].desc = NULL /\ o.h2.unsrt[i].dcl = NULL
    /\ \A d \in DestroyOutcomes(o.h2, heap) :
         /\ d.err = "none"
         /\ \A id \in Owned(heap, o.h1) : d.hp[id].live
         /\ \A e \in DestroyOutcomes(o.h1, d.hp) : e.err = "none"

\* Whether view entry k of the merged list o.h1 is a record that came from
\* the recipient (slots 1..n1) or from the donor (the slots after them).
FromRecipient(o, n1, k) == SlotOf(o.h1, k) \in 1..n1
FromDonor(o, n1, k) == SlotOf(o.h1, k) > n1
KeyAt(o, k) == o.h1.unsrt[SlotOf(o.h1, k)].sortkey

\* C4 (as claimed): whenever a donor record and a recipient record have equal
\* sortkeys, the donor's record is placed before the recipient's record in
\* the merged view.
C4_DonorFirstOnTies ==
  \A p \in MergePairs : \A o \in Merged(p) :
    \A j, k \in 1..o.h1.N :
      (FromDonor(o, th[p[1]].N, j) /\ FromRecipient(o, th[p[1]].N, k)
       /\ KeyAt(o, j) = KeyAt(o, k)) => j < k

\* C4 (amended): the merge places the recipient's record first on equal
\* sortkeys: a donor record directly precedes a recipient record in the
\* merged view only when its sortkey is strictly greater.
C4_RecipientFirstOnTies ==
  \A p \in MergePairs : \A o \in Merged(p) :
    \A k \in 1..(o.h1.N - 1) :
      (FromDonor(o, th[p[1]].N, k) /\ FromRecipient(o, th[p[1]].N, k + 1))
        => KeyAt(o, k) > KeyAt(o, k + 1)

\* A merge has put a recipient's record before a donor's record of the same
\* sortkey.
C4_TieMerged ==
  \E l1, l2 \in Lists :
    /\ th[l2].st = "donor" /\ th[l2].N = 1
    /\ th[l1].st = "live" /\ th[l1].N = 2 /\ th[l1].is_sorted
    /\ th[l1].unsrt[1].sortkey = th[l1].unsrt[2].sortkey
    /\ SlotOf(th[l1], 1) = 1 /\ SlotOf(th[l1], 2) = 2

\* C5: when an allocation in Merge fails, both lists are what they were
\* before the call: N, capacity, sorted flag, view, storage location and
\* every record.
C5_FailedMergeMutatesNothing ==
  \A p \in MergePairs : \A o \in MergeOutcomes(th[p[1]], th[p[2]]) :
    o.status = "eslEMEM" => (o.h1 = th[p[1]] /\ o.h2 = th[p[2]])

\* C6: when Merge returns eslEMEM, every view entry of each list still
\* refers to a record in the list's current storage and each list is still
\* a sorted list of its own records.
C6_FailedMergeKeepsListsValid ==
  \A p \in MergePairs :
    ((\A s \in SortOutcomes(th[p[1]]) : RankedView(s))
     /\ (\A s \in SortOutcomes(th[p[2]]) : RankedView(s)))
    => \A o \in MergeOutcomes(th[p[1]], th[p[2]]) :
         o.status = "eslEMEM" =>
           /\ o.err = "none"
           /\ RankedView(o.h1) /\ o.h1.is_sorted /\ Recs(o.h1) = Recs(th[p[1]])
           /\ RankedView(o.h2) /\ o.h2.is_sorted /\ Recs(o.h2) = Recs(th[p[2]])

\* List g is list h but for the room of its view buffer: the same N, Nalloc,
\* sorted flag, storage, records and view entries.
SameButViewRoom(g, h) ==
  /\ g.N = h.N /\ g.Nalloc = h.Nalloc /\ g.is_sorted = h.is_sorted
  /\ g.base = h.base /\ g.unsrt = h.unsrt /\ g.nreported = h.nreported
  /\ Len(g.hit) >= Len(h.hit)
  /\ \A k \in 1..Len(h.hit) : g.hit[k] = h.hit[k]

\* C7 (as claimed): when a reallocation in Grow fails, Grow returns eslEMEM
\* (CreateNextHit returns it with *ret_hit = NULL) and the list is unchanged,
\* the actual capacity of the view buffer and of the storage included.
C7_FailedGrowthAllOrNothing ==
  \A l \in LiveLists :
    /\ \A o \in GrowOutcomes(th[l]) :
         o.status # "eslOK" => (o.status = "eslEMEM" /\ o.h = th[l])
    /\ \A o \in CreateNextHitOutcomes(th[l]) :
         o.status # "eslOK" => (o.status = "eslEMEM" /\ o.ret = -1 /\ o.h = th[l])

\* C7 (amended): when a reallocation in Grow fails, Grow returns eslEMEM
\* (CreateNextHit returns it with *ret_hit = NULL) and N, Nalloc, the sorted
\* flag, the records, the storage and the view entries are unchanged; the
\* view buffer may have been enlarged already.
C7_FailedGrowthKeepsList ==
  \A l \in LiveLists :
    /\ \A o \in GrowOutcomes(th[l]) :
         o.status # "eslOK" => (o.status = "eslEMEM" /\ SameButViewRoom(o.h, th[l]))
    /\ \A o \in CreateNextHitOutcomes(th[l]) :
         o.status # "eslOK" =>
           (o.status = "eslEMEM" /\ o.ret = -1 /\ SameButViewRoom(o.h, th[l]))

\* An append to a full list fails at the storage's reallocation, after the
\* view's succeeded.
C7_StorageReallocFails ==
  \E l \in LiveLists :
    /\ th[l].N = th[l].Nalloc /\ faults < MaxFaults /\ TotalN < MaxN
    /\ \E o \in CreateNextHitOutcomes(th[l]) :
         o.status = "eslEMEM" /\ Len(o.h.hit) = 2 * th[l].Nalloc

\* The slots the view entries of h point at.
ViewSlots(h) == [k \in 1..h.N |-> SlotOf(h, k)]

\* C8: growth is transparent.  An append past the capacity leaves the
\* fields of the records in place and the payload they own unchanged; a
\* growth of a list flagged sorted leaves every view entry at the slot index
\* it referred to; and a Sort after a growth ranks the list as a Sort
\* without the growth does, in descending order when it sorts.
C8_GrowthTransparent ==
  \A l \in LiveLists :
    th[l].N = th[l].Nalloc =>
      /\ \A g \in GrowOutcomes(th[l]) :
           /\ Recs(g.h) = Recs(th[l])
           /\ g.status = "eslOK" =>
                /\ g.h.Nalloc = 2 * th[l].Nalloc
                /\ th[l].is_sorted => ViewSlots(g.h) = ViewSlots(th[l])
                /\ {ViewSlots(s) : s \in SortOutcomes(g.h)}
                     = {ViewSlots(s) : s \in SortOutcomes(th[l])}
                /\ ~th[l].is_sorted => \A s \in SortOutcomes(g.h) : RankedView(s)
      /\ \A o \in CreateNextHitOutcomes(th[l]) :
           \A i \in 1..th[l].N : o.h.unsrt[i] = th[l].unsrt[i]
      /\ \A in \in AddInputs : \A o \in AddOutcomes(th[l], heap, in) :
           /\ \A i \in 1..th[l].N : o.h.unsrt[i] = th[l].unsrt[i]
           /\ \A id \in Owned(heap, th[l]) : o.hp[id] = heap[id]

\* A full list of two records, flagged sorted with a view that is not in
\* storage order, grows into storage at another address.
C8_SortedListMoves ==
  \E l \in LiveLists :
    /\ th[l].N = 2 /\ th[l].Nalloc = 2 /\ th[l].is_sorted
    /\ ViewSlots(th[l]) = <<2, 1>>
    /\ \E g \in GrowOutcomes(th[l]) :
         g.status = "eslOK" /\ g.h.base # th[l].base /\ ViewSlots(g.h) = <<2, 1>>

\* The lists p7_tophits_Threshold can be called on.
ThresholdLists == {l \in LiveLists : th[l].is_sorted /\ CountersInBound(th[l])}

\* The outcomes of Threshold on list l in which the call returns.
Thresholded(l) ==
  {o \in UNION {ThresholdOutcomes(th[l], heap, p) : p \in PliInputs} : o.err = "none"}

\* Record r is flagged reported.
Reported(r) == "is_reported" \notin r.undef /\ r.is_reported

\* Record r has a sub-record flagged reported.
HasReportedDomain(hp, r) ==
  /\ HasDomains(hp, r)
  /\ \E d \in 1..r.ndom : hp[r.dcl].dom[d].is_reported

\* C9 (as claimed): after Threshold every record flagged reported has at
\* least one sub-record flagged reported, a record left with the defaults of
\* CreateNextHit included.
C9_ReportedHasReportedDomain ==
  \A l \in ThresholdLists : \A o \in Thresholded(l) :
    \A i \in 1..o.h.N :
      Reported(o.h.unsrt[i]) => HasReportedDomain(o.hp, o.h.unsrt[i])

\* C9 (amended): after Threshold every record flagged reported that has
\* ndom >= 1 sub-records and 0 <= best_domain < ndom has its best sub-record
\* flagged reported, also when the sub-record predicate rejects every
\* sub-record; a record with ndom = 0 has none.
C9_ReportedHasBestDomain ==
  \A l \in ThresholdLists : \A o \in Thresholded(l) :
    \A i \in 1..o.h.N :
      LET r == o.h.unsrt[i] IN
      /\ (Reported(r) /\ HasDomains(o.hp, r) /\ r.ndom >= 1
          /\ r.best_domain \in 0..(r.ndom - 1))
           => o.hp[r.dcl].dom[r.best_domain + 1].is_reported
      /\ (Reported(r) /\ HasDomains(o.hp, r) /\ r.ndom = 0)
           => ~HasReportedDomain(o.hp, r)

\* Threshold was called with a sub-record threshold no sub-record reaches,
\* and a reported record has only its best sub-record flagged.
C9_OnlyBestDomainReported ==
  /\ pli.domT = 2
  /\ \E l \in LiveLists : \E i \in 1..th[l].N :
       LET r == th[l].unsrt[i] IN
       /\ Reported(r) /\ HasDomains(heap, r) /\ r.ndom = 2 /\ r.best_domain = 1
       /\ r.nreported = 1
       /\ heap[r.dcl].dom[2].is_reported /\ ~heap[r.dcl].dom[1].is_reported

\* C10: on a list whose view is sorted, the first pass of Threshold flags a
\* record reported when the target predicate holds for its score and pvalue,
\* and on return th->nreported is the number of the list's N records for
\* which the predicate held in this call (it does not add to the count of an
\* earlier call).
C10_FirstPassCounts ==
  \A l \in ThresholdLists :
    RankedView(th[l]) =>
      \A o \in Thresholded(l) :
        LET Holds(i) ==
              p7_pli_TargetReportable(o.pli, th[l].unsrt[i].score, th[l].unsrt[i].pvalue) IN
        /\ \A i \in 1..th[l].N : Holds(i) => Reported(o.h.unsrt[i])
        /\ o.h.nreported = Cardinality({i \in 1..th[l].N : Holds(i)})

\* Threshold counted one of two records after an earlier call had counted
\* both.
C10_CountedAgain ==
  /\ pli.T = 1
  /\ \E l \in LiveLists :
       /\ th[l].N = 2 /\ th[l].nreported = 1 /\ RankedView(th[l])
       /\ \A i \in 1..2 : Reported(th[l].unsrt[i])
       /\ \E i \in 1..2 : th[l].unsrt[i].score = 0


\* C11: on a list whose view is sorted, a call of Threshold marks sub-record
\* d of a record flagged reported exactly when d is the record's best_domain
\* or the sub-record predicate holds for d, marks no sub-record of a record
\* not flagged reported, and on return the nreported of each reported record
\* is the number of its sub-records flagged reported - also on a list
\* Threshold was called on before.
C11_SecondPassCounts ==
  \A l \in ThresholdLists :
    RankedView(th[l]) =>
      \A o \in Thresholded(l) : \A i \in 1..th[l].N :
        LET r0 == th[l].unsrt[i]
            r  == o.h.unsrt[i]
            Marked(d) == o.hp[r.dcl].dom[d].is_reported /\ ~heap[r0.dcl].dom[d].is_reported
            Kept(d) == o.hp[r.dcl].dom[d].is_reported = heap[r0.dcl].dom[d].is_reported
        IN  HasDomains(heap, r0) =>
              /\ Reported(r) =>
                   \A d \in 1..r.ndom :
                     \/ Marked(d)
                          /\ (r.best_domain = d - 1
                              \/ p7_pli_DomainReportable(o.pli, heap[r0.dcl].dom[d].bitscore,
                                                         heap[r0.dcl].dom[d].pvalue))
                     \/ Kept(d)
                          /\ (heap[r0.dcl].dom[d].is_reported
                              \/ ~(r.best_domain = d - 1
                                   \/ p7_pli_DomainReportable(o.pli, heap[r0.dcl].dom[d].bitscore,
                                                              heap[r0.dcl].dom[d].pvalue)))
              /\ ~Reported(r) => \A d \in 1..r.ndom : Kept(d)
              /\ Reported(r) => r.nreported = Cardinality(ReportedDomains(o.hp, r))

\* Records q and r agree on every field but the reported flag and the
\* reported counter.
SameButReported(q, r) ==
  /\ \A f \in Fields \ {"is_reported", "nreported"} : q[f] = r[f]
  /\ q.undef \ {"is_reported"} = r.undef \ {"is_reported"}

\* Heap cells c and e agree on everything but the reported flags of their
\* sub-records.
SameButDomainFlags(c, e) ==
  /\ c.kind = e.kind /\ c.live = e.live /\ c.str = e.str
  /\ Len(c.dom) = Len(e.dom)
  /\ \A d \in 1..Len(c.dom) : [c.dom[d] EXCEPT !.is_reported = FALSE]
                                = [e.dom[d] EXCEPT !.is_reported = FALSE]

\* What a returning call of Threshold with outcome o leaves alone in list h
\* and heap hp.
ThresholdKeepsList(h, hp, o) ==
  /\ o.status = "eslOK"
  /\ [o.h EXCEPT !.nreported = 0, !.unsrt = << >>] = [h EXCEPT !.nreported = 0, !.unsrt = << >>]
  /\ Len(o.h.unsrt) = Len(h.unsrt)
  /\ \A i \in 1..Len(h.unsrt) : SameButReported(o.h.unsrt[i], h.unsrt[i])
  /\ \A id \in 1..HeapSize : SameButDomainFlags(o.hp[id], hp[id])

\* C12 (as claimed): on a list whose view is sorted, Threshold changes only
\* reported flags and reported counters of the list: N, the view, the sorted
\* flag, every sortkey, score and pvalue and the set of records stay, and
\* no field of the pipeline object changes.
C12_NoSideEffect ==
  \A l \in ThresholdLists :
    RankedView(th[l]) =>
      \A p \in PliInputs : \A o \in ThresholdOutcomes(th[l], heap, p) :
        o.err = "none" => (ThresholdKeepsList(th[l], heap, o) /\ o.pli = p)

\* C12 (amended): on a list whose view is sorted, Threshold changes only
\* reported flags and reported counters of the list and, when domZ_setby is
\* p7_ZSETBY_NTARGETS, the pipeline's domZ: N, the view, the sorted flag,
\* every sortkey, score and pvalue and the set of records stay, and every
\* other field of the pipeline object stays.
C12_OnlyFlagsCountersAndDomZ ==
  \A l \in ThresholdLists :
    RankedView(th[l]) =>
      \A p \in PliInputs : \A o \in ThresholdOutcomes(th[l], heap, p) :
        o.err = "none" =>
          /\ ThresholdKeepsList(th[l], heap, o)
          /\ [o.pli EXCEPT !.domZ = 0] = [p EXCEPT !.domZ = 0]
          /\ p.domZ_setby # "p7_ZSETBY_NTARGETS" => o.pli.domZ = p.domZ

\* Threshold, called with domZ set by the number of targets, left one of two
\* records unreported in the list and set domZ.
C12_UnreportedStays ==
  /\ pli.domZ_setby = "p7_ZSETBY_NTARGETS" /\ pli.T = 1 /\ pli.domZ = 1
  /\ \E l \in LiveLists :
       /\ th[l].N = 2 /\ th[l].nreported = 1 /\ RankedView(th[l])
       /\ \E i \in 1..2 : /\ "is_reported" \notin th[l].unsrt[i].undef
                          /\ ~th[l].unsrt[i].is_reported
                          /\ th[l].unsrt[i].score < pli.T

\* C13: on a list whose view is sorted, a returning call of Threshold with
\* domZ_setby = p7_ZSETBY_NTARGETS leaves pli->domZ equal to th->nreported,
\* the count of the first pass, and has classified the sub-records with
\* that value: a sub-record of a reported record is flagged when the
\* predicate holds for it under the new domZ, and one flagged in this call
\* is the best_domain or meets the predicate under the new domZ.  With any
\* other domZ_setby, pli->domZ is what the caller passed in.
C13_DomZBeforeSecondPass ==
  \A l \in ThresholdLists :
    RankedView(th[l]) =>
      \A p \in PliInputs : \A o \in ThresholdOutcomes(th[l], heap, p) :
        o.err = "none" =>
          /\ p.domZ_setby = "p7_ZSETBY_NTARGETS" => o.pli.domZ = o.h.nreported
          /\ p.domZ_setby # "p7_ZSETBY_NTARGETS" => o.pli.domZ = p.domZ
          /\ \A i \in 1..th[l].N :
               LET r0 == th[l].unsrt[i]
                   r  == o.h.unsrt[i] IN
               (HasDomains(heap, r0) /\ Reported(r)) =>
                 \A d \in 1..r.ndom :
                   LET Holds == p7_pli_DomainReportable(o.pli, heap[r0.dcl].dom[d].bitscore,
                                                        heap[r0.dcl].dom[d].pvalue) IN
                   /\ Holds => o.hp[r.dcl].dom[d].is_reported
                   /\ (o.hp[r.dcl].dom[d].is_reported /\ ~heap[r0.dcl].dom[d].is_reported)
                        => (Holds \/ r.best_domain = d - 1)

\* Threshold was called with an E-value threshold that sub-records meet only
\* under the domZ of this call, 1, and flagged both sub-records of the one
\* record reported.
C13_ClassifiedWithNewDomZ ==
  /\ pli.dom_by_E /\ pli.domZ_setby = "p7_ZSETBY_NTARGETS" /\ pli.domZ = 1
  /\ \E l \in LiveLists :
       /\ th[l].N = 1 /\ th[l].nreported = 1
       /\ LET r == th[l].unsrt[1] IN
          /\ Reported(r) /\ HasDomains(heap, r) /\ r.ndom = 2
          /\ ReportedDomains(heap, r) = {1, 2}

\* C14: Sort always leaves the sorted flag set and never changes N or a
\* record; on a list whose flag is set it changes nothing at all, so a
\* second Sort leaves exactly the list the first one left.
C14_SortIdempotentAndLazy ==
  \A l \in LiveLists : \A s \in SortOutcomes(th[l]) :
    /\ s.is_sorted
    /\ s.N = th[l].N /\ s.unsrt = th[l].unsrt
    /\ th[l].is_sorted => s = th[l]
    /\ SortOutcomes(s) = {s}

\* A Sort has ranked two records of equal sortkey with the later one first:
\* sorting again could swap them.
C14_SortedWithTie ==
  \E l \in LiveLists :
    /\ th[l].is_sorted /\ th[l].N = 2 /\ ViewSlots(th[l]) = <<2, 1>>
    /\ th[l].unsrt[1].sortkey = th[l].unsrt[2].sortkey

\* What a successful CreateNextHit with outcome o on list h does apart from
\* best_domain: the handle is slot N, N grows by 1, the records in place
\* stay, and every field of the new record is written: strings and dcl NULL,
\* scores, counts and keys 0, is_reported FALSE.
CreatesZeroedHit(h, o) ==
  /\ o.ret = h.N /\ o.h.N = h.N + 1
  /\ \A i \in 1..h.N : o.h.unsrt[i] = h.unsrt[i]
  /\ LET r == o.h.unsrt[h.N + 1] IN
     /\ r.undef = {}
     /\ r.name = NULL /\ r.acc = NULL /\ r.desc = NULL /\ r.dcl = NULL
     /\ r.sortkey = 0 /\ r.score = 0 /\ r.pvalue = 0
     /\ r.ndom = 0 /\ r.nreported = 0 /\ r.is_reported = FALSE

\* C15 (as claimed): a successful CreateNextHit returns slot N, adds 1 to N,
\* leaves the records in place and zero-initializes the new record, its
\* index field best_domain included, whatever the slot held before.
C15_NewHitAllZero ==
  \A l \in LiveLists : \A o \in CreateNextHitOutcomes(th[l]) :
    o.status = "eslOK" =>
      (CreatesZeroedHit(th[l], o) /\ o.h.unsrt[th[l].N + 1].best_domain = 0)

\* C15 (amended): a successful CreateNextHit returns slot N, adds 1 to N,
\* leaves the records in place and initializes the new record: strings and
\* dcl NULL, scores, counts and keys 0, is_reported FALSE, and best_domain
\* -1 - whatever the slot held before.
C15_NewHitInitialized ==
  \A l \in LiveLists : \A o \in CreateNextHitOutcomes(th[l]) :
    o.status = "eslOK" =>
      (CreatesZeroedHit(th[l], o) /\ o.h.unsrt[th[l].N + 1].best_domain = -1)

\* A list emptied by Reuse whose slot 0 still holds the sub-record array and
\* the counts of its earlier record, and a CreateNextHit that succeeds on it.
C15_StaleSlotReset ==
  \E l \in LiveLists :
    /\ th[l].N = 0
    /\ LET r == th[l].unsrt[1] IN
       /\ {"dcl", "ndom", "best_domain"} \cap r.undef = {}
       /\ r.dcl # NULL /\ r.ndom > 0 /\ r.best_domain >= 0
    /\ \E o \in CreateNextHitOutcomes(th[l]) :
         o.status = "eslOK" /\ o.h.unsrt[1].dcl = NULL

\* The lists that exist, donors of a Merge included.
HeldLists == {l \in Lists : th[l].st \in {"live", "donor"}}

\* C16: a list of 0 or 1 records always has the sorted flag set; a
\* successful append by CreateNextHit or Add leaves the flag set when the
\* list then holds exactly 1 record and clear when it holds 2 or more; and
\* no operation but Sort and Merge sets the flag of a list of 2 or more
\* records: a failed append and a growth leave the flag as it is, and Reuse
\* sets it on a list it has emptied.
C16_SortedFlagDiscipline ==
  /\ \A l \in HeldLists : th[l].N <= 1 => th[l].is_sorted
  /\ \A l \in LiveLists :
       /\ \A o \in CreateNextHitOutcomes(th[l]) :
            IF o.status = "eslOK" THEN o.h.is_sorted = (o.h.N = 1)
            ELSE o.h.is_sorted = th[l].is_sorted
       /\ \A in \in AddInputs : \A o \in AddOutcomes(th[l], heap, in) :
            IF o.status = "eslOK" THEN o.h.is_sorted = (o.h.N = 1)
            ELSE o.h.is_sorted = th[l].is_sorted
       /\ \A g \in GrowOutcomes(th[l]) : g.h.is_sorted = th[l].is_sorted
       /\ \A o \in ReuseOutcomes(th[l], heap) :
            o.h.is_sorted # th[l].is_sorted => (o.h.N = 0 /\ o.h.is_sorted)

\* CreateNextHit has just appended the second record to a sorted list of
\* one, and the flag is clear.
C16_SecondAppendClears ==
  \E l \in LiveLists :
    /\ th[l].N = 2 /\ ~th[l].is_sorted
    /\ ret_hit = [h |-> l, idx |-> 1]

\* C17: Reuse returns, and has then freed each cell the N records own -
\* name, accession, description, sub-record array and each sub-record's
\* alignment display - once: the cell was allocated before the call and is
\* free after it, and no other cell changes.  N is 0, the sorted flag is
\* set, hit[0] refers to slot 0, and Nalloc and both buffers are as before.
\* A CreateNextHit on the list then returns slot 0 with the values it has
\* on a new list.
C17_ReuseFreesOnce ==
  \A l \in LiveLists : \A o \in ReuseOutcomes(th[l], heap) :
    /\ o.err = "none"
    /\ \A id \in 1..HeapSize :
         IF id \in Owned(heap, th[l]) THEN heap[id].live /\ ~o.hp[id].live
         ELSE o.hp[id] = heap[id]
    /\ o.h.N = 0 /\ o.h.is_sorted /\ o.h.hit[1] = Ptr(o.h.base, 0)
    /\ o.h.st = "live" /\ o.h.Nalloc = th[l].Nalloc /\ o.h.base = th[l].base
    /\ Len(o.h.hit) = Len(th[l].hit) /\ Len(o.h.unsrt) = Len(th[l].unsrt)
    /\ \A c \in CreateNextHitOutcomes(o.h) :
         c.status = "eslOK" => (c.ret = 0 /\ c.h.N = 1 /\ c.h.is_sorted
                                /\ c.h.unsrt[1] = InitHit)

\* The records of h are in the slots they had in g, with the values they had.
RecordsStay(g, h) == \A i \in 1..g.N : h.unsrt[i] = g.unsrt[i]

\* Every successful append, Grow, Sort and Merge into list l leaves the
\* records of l in their slots with their values.
StableThroughAppendSortMerge(l) ==
  /\ \A o \in CreateNextHitOutcomes(th[l]) : o.status = "eslOK" => RecordsStay(th[l], o.h)
  /\ \A in \in AddInputs : \A o \in AddOutcomes(th[l], heap, in) :
       o.status = "eslOK" => RecordsStay(th[l], o.h)
  /\ \A g \in GrowOutcomes(th[l]) : g.status = "eslOK" => RecordsStay(th[l], g.h)
  /\ \A s \in SortOutcomes(th[l]) : s.N = th[l].N /\ s.unsrt = th[l].unsrt
  /\ \A p \in MergePairs : p[1] = l => \A o \in Merged(p) : RecordsStay(th[l], o.h1)

\* C18 (as claimed): a record stays at its storage slot with unchanged field
\* values through every later successful append, Grow, Sort, Threshold and
\* Merge into its list.
C18_RecordsNeverChange ==
  \A l \in LiveLists :
    /\ StableThroughAppendSortMerge(l)
    /\ (l \in ThresholdLists /\ RankedView(th[l])) =>
         \A o \in Thresholded(l) : RecordsStay(th[l], o.h)

\* C18 (amended): a record stays at its storage slot through every later
\* successful append, Grow, Sort, Threshold and Merge into its list, with
\* unchanged field values except is_reported and nreported, which Threshold
\* sets; Sort and Merge change only the view.
C18_RecordsStayInSlots ==
  \A l \in LiveLists :
    /\ StableThroughAppendSortMerge(l)
    /\ (l \in ThresholdLists /\ RankedView(th[l])) =>
         \A o \in Thresholded(l) : \A i \in 1..th[l].N :
           SameButReported(o.h.unsrt[i], th[l].unsrt[i])

\* A list that took its second record from a donor in a Merge, which ranked
\* the record in slot 1 first, and on which Threshold then reported both
\* records: slot 0 still holds the list's own record.
C18_MergedAndThresholded ==
  \E l \in LiveLists : \E l2 \in Lists :
    /\ th[l2].st = "donor"
    /\ th[l].N = 2 /\ ViewSlots(th[l]) = <<2, 1>> /\ th[l].nreported = 2
    /\ th[l].unsrt[1].sortkey < th[l].unsrt[2].sortkey
    /\ Reported(th[l].unsrt[1]) /\ Reported(th[l].unsrt[2])

\* The view of h ranks its records and every record has its flags, counts
\* and sub-record array in place, the array allocated.
WellFormed(h, hp) ==
  /\ RankedView(h)
  /\ \A i \in 1..h.N : /\ HasDomains(hp, h.unsrt[i])
                       /\ h.unsrt[i].ndom > 0 => hp[h.unsrt[i].dcl].live

\* No sub-record of a reported record of h is flagged reported.
NothingReported(h, hp) ==
  \A i \in 1..h.N : Reported(h.unsrt[i]) => ReportedDomains(hp, h.unsrt[i]) = {}

\* C19: on a well-formed list in which no sub-record of a reported record is
\* flagged reported, Alignment returns eslFAIL with *ret_msa = NULL, without
\* reaching an allocation, without reading an alignment display or the
\* payload of a record that is not reported, and without a fault; on a list
\* of zero records it reads no payload at all, and Threshold on such a list
\* leaves nreported = 0 and a list on which Alignment fails the same way.
C19_EmptyAlignmentFails ==
  \A l \in LiveLists :
    /\ (WellFormed(th[l], heap) /\ NothingReported(th[l], heap)) =>
         \A o \in AlignmentOutcomes(th[l], heap) :
           /\ o.status = "eslFAIL" /\ o.ret_msa = "NULL"
           /\ ~o.allocated /\ o.err = "none"
           /\ \A id \in o.reads :
                /\ heap[id].kind = "dcl"
                /\ \E i \in 1..th[l].N : Reported(th[l].unsrt[i]) /\ th[l].unsrt[i].dcl = id
           /\ th[l].N = 0 => o.reads = {}
    /\ (th[l].N = 0 /\ l \in ThresholdLists) =>
         \A t \in Thresholded(l) :
           /\ t.h.nreported = 0
           /\ \A o \in AlignmentOutcomes(t.h, t.hp) :
                o.status = "eslFAIL" /\ o.ret_msa = "NULL" /\ o.err = "none"

\* Threshold has rejected the one record of the one list, which has a
\* sub-record, and Alignment has returned NULL without an allocation
\* failure.
C19_NothingToAlign ==
  /\ ret_msa = "NULL" /\ faults = 0 /\ pli.T = 1
  /\ \E l \in LiveLists :
       /\ \A l2 \in Lists \ {l} : th[l2].st = "none"
       /\ th[l].N = 1 /\ th[l].nreported = 0
       /\ HasDomains(heap, th[l].unsrt[1]) /\ th[l].unsrt[1].ndom >= 1
       /\ ~Reported(th[l].unsrt[1])

\* The names of the records of h in view order.
ViewNames(hp, h) ==
  [k \in 1..h.N |-> IF SlotOf(h, k) = 0 \/ h.unsrt[SlotOf(h, k)].name = NULL THEN ""
                    ELSE hp[h.unsrt[SlotOf(h, k)].name].str]

\* C20: in the scenario, list 1 holding a (0.5), b (10.0) and c (0.1) has
\* the view name order b, a, c once it is sorted, and after the merge of
\* list 2 with top (20.0) and bottom (-1.0) into it the view name order is
\* top, b, a, c, bottom.
C20_ScenarioOrder ==
  /\ (th[1].st = "live" /\ th[1].N = 3 /\ th[1].is_sorted)
       => ViewNames(heap, th[1]) = <<"b", "a", "c">>
  /\ th[1].N = 5 => ViewNames(heap, th[1]) = <<"top", "b", "a", "c", "bottom">>

\* The merge of the scenario has happened: list 1 holds the five records and
\* list 2 is its donor.
C20_ScenarioMerged ==
  /\ th[1].st = "live" /\ th[1].N = 5 /\ th[1].is_sorted
  /\ th[2].st = "donor"
  /\ Names(heap, th[1]) = {"a", "b", "c", "top", "bottom"}

\* The greatest element of the set S of naturals, 0 for the empty set.
Greatest(S) == IF S = {} THEN 0 ELSE CHOOSE m \in S : \A x \in S : x <= m

\* The lengths of the names of the records of h.
NameLengths(hp, h) ==
  {strlen(hp[h.unsrt[i].name].str) : i \in {j \in 1..h.N : h.unsrt[j].name # NULL}}

\* C21: GetMaxNameLength is the greatest name length over the N records of
\* the list, 0 when the list is empty or no record has a name; a Sort does
\* not change it; and after a successful Merge(A, B) its value for A is the
\* greater of the values A and B had before.
C21_MaxNameLength ==
  /\ \A l \in LiveLists :
       /\ p7_tophits_GetMaxNameLength(heap, th[l]) = Greatest(NameLengths(heap, th[l]))
       /\ \A s \in SortOutcomes(th[l]) :
            p7_tophits_GetMaxNameLength(heap, s) = p7_tophits_GetMaxNameLength(heap, th[l])
  /\ \A p \in MergePairs : \A o \in Merged(p) :
       p7_tophits_GetMaxNameLength(heap, o.h1)
         = Max(p7_tophits_GetMaxNameLength(heap, th[p[1]]),
               p7_tophits_GetMaxNameLength(heap, th[p[2]]))

\* An unsorted list holds a record without a name and one with a name, and
\* the other list holds a longer name: a Merge raises the value of either.
C21_LongerNameInOtherList ==
  \E l \in LiveLists : \E l2 \in LiveLists :
    /\ th[l].N = 2 /\ ~th[l].is_sorted
    /\ th[l].unsrt[1].name = NULL /\ th[l].unsrt[2].name # NULL
    /\ p7_tophits_GetMaxNameLength(heap, th[l]) = 1
    /\ p7_tophits_GetMaxNameLength(heap, th[l2]) = 2

\* List h can be reported: its view ranks its records and both report
\* functions can print each record flagged reported.
OutputReady(h, hp) ==
  /\ h.is_sorted /\ RankedView(h)
  /\ \A k \in 1..h.N : TargetPrintable(h, hp, h.hit[k]) /\ DomainPrintable(h, hp, h.hit[k])

\* The reports of list h with heap hp that return.
Reports(h, hp) ==
  UNION {TargetsOutcomes(h, hp, w) \cup DomainsOutcomes(h, hp, w) : w \in TextWidths}

\* Report out has, in view order, one entry for each record of h flagged
\* reported and no other entry.
OneEntryPerReported(h, out) ==
  /\ \A i \in 1..h.N :
       Cardinality({j \in 1..Len(out.entries) : out.entries[j].slot = i})
         = IF Reported(h.unsrt[i]) THEN 1 ELSE 0
  /\ \A j \in 1..Len(out.entries) : out.entries[j].slot \in 1..h.N
  /\ \A j, k \in 1..Len(out.entries) :
       j < k => \E a, b \in 1..h.N : /\ a < b
                                     /\ SlotOf(h, a) = out.entries[j].slot
                                     /\ SlotOf(h, b) = out.entries[k].slot

\* C22: Targets and Domains emit, in view order, one entry for each record
\* flagged reported and none for another record, emit the sentinel line
\* exactly when the list's reported count is zero, and so emit the sentinel
\* line if and only if they emitted no entry.
C22_SentinelIffNoEntry ==
  \A l \in LiveLists :
    OutputReady(th[l], heap) =>
      \A o \in Reports(th[l], heap) :
        /\ o.err = "none"
        /\ OneEntryPerReported(th[l], o.out)
        /\ o.out.sentinel <=> th[l].nreported = 0
        /\ o.out.sentinel <=> o.out.entries = <<>>

\* What holds of the reports: the entries and the sentinel line each follow
\* their own source, the record flags and the list's counter.
C22_EntriesAndSentinel ==
  \A l \in LiveLists :
    OutputReady(th[l], heap) =>
      \A o \in Reports(th[l], heap) :
        /\ o.err = "none"
        /\ OneEntryPerReported(th[l], o.out)
        /\ o.out.sentinel <=> th[l].nreported = 0

\* The calls of Targets on list h with line width w that return.
TargetsReturned(h, hp, w) == {o \in TargetsOutcomes(h, hp, w) : o.err = "none"}

\* Width d is the description width for line width w and name width n.
IsDescWidth(d, w, n) ==
  IF w > 0 THEN d >= 32 /\ d >= w - n - 59 /\ d \in {32, w - n - 59}
  ELSE d = INT_MAX

\* The lengths of the names of the records of h flagged reported.
ReportedNameLengths(hp, h) ==
  {strlen(hp[h.unsrt[i].name].str) :
     i \in {j \in 1..h.N : h.unsrt[j].name # NULL /\ Reported(h.unsrt[j])}}

\* C23 (as claimed): the name column of Targets is as wide as the longest
\* name among the reported records, at least 8, and the description width is
\* max(32, textw - namew - 59) for textw > 0 and INT_MAX otherwise.
C23_NameWidthOfReportedNames ==
  \A l \in LiveLists : \A w \in TextWidths : \A o \in TargetsReturned(th[l], heap, w) :
    /\ o.out.namew = Max(8, Greatest(ReportedNameLengths(heap, th[l])))
    /\ IsDescWidth(o.out.descw, w, o.out.namew)

\* C23 (amended): the name column of Targets is as wide as the longest name
\* among all N records of the list, reported or not, at least 8; every line
\* of the table has that width; and the description width is
\* max(32, textw - namew - 59) for textw > 0 and INT_MAX otherwise.
C23_NameWidthOfAllNames ==
  \A l \in LiveLists : \A w \in TextWidths : \A o \in TargetsReturned(th[l], heap, w) :
    /\ o.out.namew = Max(8, Greatest(NameLengths(heap, th[l])))
    /\ o.out.namew >= 8
    /\ IsDescWidth(o.out.descw, w, o.out.namew)
    /\ \A j \in 1..Len(o.out.entries) :
         o.out.entries[j].namew = o.out.namew /\ o.out.entries[j].descw = o.out.descw

\* Targets has printed a table of one line, for the record with the short
\* name, in a column as wide as the name of the record that is not
\* reported, and the description has more than its minimum width.
C23_WidthOfUnreportedName ==
  /\ ofp.op = "Targets" /\ ofp.namew = 9 /\ ofp.descw = 52
  /\ Len(ofp.entries) = 1
  /\ \E l \in LiveLists :
       /\ th[l].N = 2
       /\ \E i \in 1..2 : /\ ~Reported(th[l].unsrt[i])
                          /\ th[l].unsrt[i].name # NULL
                          /\ strlen(heap[th[l].unsrt[i].name].str) = 9
       /\ ofp.entries[1].slot \in 1..2
       /\ Reported(th[l].unsrt[ofp.entries[1].slot])
       /\ th[l].unsrt[ofp.entries[1].slot].name # NULL
       /\ strlen(heap[th[l].unsrt[ofp.entries[1].slot].name].str) = 1

\* C24: Destroy on a list that was never a merge donor returns, and has then
\* freed once each cell the N records own - name, accession, description,
\* sub-record array and each sub-record's alignment display: the cell was
\* allocated before the call and is free after it, no other cell changes,
\* and the list is gone; Destroy(NULL) does nothing.
C24_DestroyFreesOnce ==
  /\ \A l \in LiveLists : \A o \in DestroyOutcomes(th[l], heap) :
       /\ o.err = "none"
       /\ \A id \in 1..HeapSize :
            IF id \in Owned(heap, th[l]) THEN heap[id].live /\ ~o.hp[id].live
            ELSE o.hp[id] = heap[id]
       /\ o.h = NoList
  /\ DestroyOutcomes(NoList, heap) = {[h |-> NoList, hp |-> heap, err |-> "none"]}

\* C25: when Add fails, N, the sorted flag and the records 0..N-1 are as
\* before the call, no cell was freed, and every string the call allocated
\* is owned by a record in slots 0..N-1 of the list.
C25_FailedAddLeavesNothing ==
  \A l \in LiveLists : \A in \in AddInputs : \A o \in AddOutcomes(th[l], heap, in) :
    o.status # "eslOK" =>
      /\ o.h.N = th[l].N /\ o.h.is_sorted = th[l].is_sorted
      /\ Recs(o.h) = Recs(th[l])
      /\ \A id \in 1..HeapSize :
           /\ heap[id].live => o.hp[id] = heap[id]
           /\ (o.hp[id].live /\ ~heap[id].live) => id \in Owned(o.hp, o.h)

\* What a failed Add leaves as it found it: N, the sorted flag, the records
\* 0..N-1 and every cell allocated before the call.
C25_FailedAddKeepsRecords ==
  \A l \in LiveLists : \A in \in AddInputs : \A o \in AddOutcomes(th[l], heap, in) :
    o.status # "eslOK" =>
      /\ o.h.N = th[l].N /\ o.h.is_sorted = th[l].is_sorted
      /\ Recs(o.h) = Recs(th[l])
      /\ \A id \in 1..HeapSize : heap[id].live => o.hp[id] = heap[id]

\* C26: after a successful Merge(h1, h2) of lists of N1 and N2 records, h1
\* holds N1 + N2 records with a capacity of the sum of both capacities and
\* is flagged sorted; its records are its own, in their slots, followed by
\* the donor's in the donor's storage order; and every entry of its view
\* refers to one of the N1 + N2 slots of its current storage, each slot once.
C26_MergeLayout ==
  \A p \in MergePairs : \A o \in Merged(p) :
    LET N1 == th[p[1]].N
        N2 == th[p[2]].N IN
    /\ o.h1.N = N1 + N2
    /\ o.h1.Nalloc = th[p[1]].Nalloc + th[p[2]].Nalloc
    /\ o.h1.is_sorted
    /\ \A i \in 1..N1 : o.h1.unsrt[i] = th[p[1]].unsrt[i]
    /\ \A j \in 1..N2 : o.h1.unsrt[N1 + j] = th[p[2]].unsrt[j]
    /\ \A k \in 1..(N1 + N2) :
         /\ Valid(o.h1, o.h1.hit[k])
         /\ SlotOf(o.h1, k) \in 1..(N1 + N2)
    /\ \A i \in 1..(N1 + N2) : \E k \in 1..(N1 + N2) : SlotOf(o.h1, k) = i

\* What holds of every successful Merge: the counts, the flag and the
\* records in storage order.
C26_MergeStorage ==
  \A p \in MergePairs : \A o \in Merged(p) :
    LET N1 == th[p[1]].N
        N2 == th[p[2]].N IN
    /\ o.h1.N = N1 + N2
    /\ o.h1.Nalloc = th[p[1]].Nalloc + th[p[2]].Nalloc
    /\ o.h1.is_sorted
    /\ \A i \in 1..N1 : o.h1.unsrt[i] = th[p[1]].unsrt[i]
    /\ \A j \in 1..N2 : o.h1.unsrt[N1 + j] = th[p[2]].unsrt[j]

\* C27: in every state a list that holds exactly one record is flagged
\* sorted and its view entry hit[0] refers to that record, at slot 0 of the
\* list's current storage.
C27_OneRecordIsSorted ==
  \A l \in LiveLists :
    th[l].N = 1 => (th[l].is_sorted /\ th[l].hit[1] = Ptr(th[l].base, 0))

\* What holds of a list of one record: it is flagged sorted.
C27_OneRecordIsFlagged ==
  \A l \in LiveLists : th[l].N = 1 => th[l].is_sorted

\* List record h has its N records within its capacity, which is at least
\* the initial one, and both of its buffers have room for the capacity.
Capacious(h) ==
  /\ 0 <= h.N /\ h.N <= h.Nalloc
  /\ h.Nalloc >= default_nalloc
  /\ Len(h.hit) >= h.Nalloc /\ Len(h.unsrt) >= h.Nalloc

\* C28: every list has 0 <= N <= Nalloc, a capacity of at least the initial
\* one and room for Nalloc entries in the view buffer and in the storage,
\* and every operation leaves it so; Grow returns eslOK with the list as it
\* was when N < Nalloc, and otherwise doubles the capacity or fails with the
\* capacity as it was; and the slot an append writes is below the capacity
\* Grow left.
C28_CapacityInvariant ==
  /\ \A o \in CreateOutcomes : o.status = "eslOK" => Capacious(o.h)
  /\ \A l \in LiveLists :
       /\ Capacious(th[l])
       /\ \A g \in GrowOutcomes(th[l]) :
            /\ Capacious(g.h)
            /\ g.h.N = th[l].N
            /\ IF th[l].N < th[l].Nalloc THEN g.status = "eslOK" /\ g.h = th[l]
               ELSE IF g.status = "eslOK" THEN g.h.Nalloc = 2 * th[l].Nalloc
               ELSE g.h.Nalloc = th[l].Nalloc
            /\ g.status = "eslOK" => th[l].N < g.h.Nalloc
       /\ \A o \in CreateNextHitOutcomes(th[l]) :
            /\ Capacious(o.h)
            /\ o.status = "eslOK" => (o.ret = th[l].N /\ o.ret < o.h.Nalloc)
       /\ \A in \in AddInputs : \A o \in AddOutcomes(th[l], heap, in) :
            /\ Capacious(o.h)
            /\ o.h.N \in {th[l].N, th[l].N + 1}
       /\ \A o \in ReuseOutcomes(th[l], heap) : Capacious(o.h)
  /\ \A p \in MergePairs : \A o \in MergeOutcomes(th[p[1]], th[p[2]]) :
       Capacious(o.h1) /\ Capacious(o.h2)

\* An append found a list full at the initial capacity and Grow has doubled
\* it: the list holds two records in a capacity of two.
C28_GrownOnce ==
  \E l \in LiveLists :
    /\ th[l].N = 2 * default_nalloc /\ th[l].Nalloc = 2 * default_nalloc
    /\ ret_hit = [h |-> l, idx |-> th[l].N - 1]

\* The slots lo+1..lo+n of the merged list h in the order in which its view
\* names them from entry k on, counted from lo.
RECURSIVE ViewWithin(_, _, _, _)
ViewWithin(h, lo, n, k) ==
  IF k > h.N THEN <<>>
  ELSE (IF SlotOf(h, k) \in (lo + 1)..(lo + n) THEN <<SlotOf(h, k) - lo>> ELSE <<>>)
       \o ViewWithin(h, lo, n, k + 1)

\* Slot a comes before slot b in the view of s.
Before(s, a, b) ==
  \E j, k \in 1..s.N : j < k /\ SlotOf(s, j) = a /\ SlotOf(s, k) = b

\* C29: a successful Merge keeps the order of each input: for the views
\* s1 and s2 that the Sort calls of the Merge gave the recipient and the
\* donor, two records of the recipient come in the merged view in the order
\* they have in s1 and two records of the donor in the order they have in
\* s2, records of equal sortkey included; the merged view, read for the
\* records of one input alone, is that input's ranked view.
C29_MergeKeepsInputOrder ==
  \A p \in MergePairs : \A o \in Merged(p) :
    LET N1 == th[p[1]].N
        N2 == th[p[2]].N IN
    \E s1 \in SortOutcomes(th[p[1]]) : \E s2 \in SortOutcomes(th[p[2]]) :
      /\ \A a, b \in 1..N1 : Before(o.h1, a, b) => Before(s1, a, b)
      /\ \A a, b \in 1..N2 : Before(o.h1, N1 + a, N1 + b) => Before(s2, a, b)
      /\ RankedView(s1) => ViewWithin(o.h1, 0, N1, 1) = ViewSlots(s1)
      /\ RankedView(s2) => ViewWithin(o.h1, N1, N2, 1) = ViewSlots(s2)

\* Two lists of two records each, with equal sortkeys within each list and
\* across them, have been merged into one of four.
C29_TiesMerged ==
  \E l \in LiveLists :
    /\ th[l].N = 4 /\ th[l].is_sorted /\ RankedView(th[l])
    /\ \A i \in 1..4 : th[l].unsrt[i].sortkey = 1
    /\ \E l2 \in Lists : th[l2].st = "donor" /\ th[l2].N = 2

\* The lists a successful Merge(x, y) leaves as x.
MergedInto(x, y) ==
  {o.h1 : o \in {m \in MergeOutcomes(x, y) : m.status = "eslOK" /\ m.err = "none"}}

\* The lists that folding x, y and z gives when x and y are merged first,
\* into x, and the result and z are merged either way round.
FoldOf(x, y, z) ==
  UNION {MergedInto(r, z) \cup MergedInto(z, r) : r \in MergedInto(x, y)}

\* The lists that folding a, b and c into one gives, over every order of the
\* merges and either choice of recipient in each.
Folds(a, b, c) ==
  FoldOf(a, b, c) \cup FoldOf(b, a, c) \cup FoldOf(a, c, b)
    \cup FoldOf(c, a, b) \cup FoldOf(b, c, a) \cup FoldOf(c, b, a)

\* The sortkeys of h in view order.
ViewKeys(h) == [k \in 1..h.N |-> h.unsrt[SlotOf(h, k)].sortkey]

\* f and g hold the same number of records, the same records and the same
\* sequence of sortkeys in their views.
SameFold(f, g) ==
  /\ f.N = g.N
  /\ SameRecords(Recs(f), Recs(g))
  /\ ViewKeys(f) = ViewKeys(g)

\* The lists of one record built by Create and one Add, with the heap the
\* Add leaves.
ThirdLists ==
  {o \in UNION {AddOutcomes(NewList(1), heap, in) : in \in FoldInputs} : o.status = "eslOK"}

\* C30: folding lists that were built independently into one by successful
\* merges gives the same number of records, the same multiset of records and
\* the same sequence of sortkeys in the view, whatever the order of the
\* merges and whichever list is the recipient in each: for the two lists of
\* the state, and for them and a third list of one record.
C30_FoldOrderIndependent ==
  \A p \in MergePairs :
    /\ \A f \in MergedInto(th[p[1]], th[p[2]]) : \A g \in MergedInto(th[p[2]], th[p[1]]) :
         /\ SameFold(f, g)
         /\ f.N = th[p[1]].N + th[p[2]].N
    /\ p[1] < p[2] =>
         \A c \in ThirdLists :
           \A f, g \in Folds(th[p[1]], th[p[2]], c.h) :
             /\ SameFold(f, g)
             /\ f.N = th[p[1]].N + th[p[2]].N + 1

\* Two lists built independently, of two records each in ascending order of
\* different sortkeys, have been folded into one of four records.
C30_FoldedTwoLists ==
  \E l \in LiveLists :
    /\ th[l].N = 4 /\ th[l].is_sorted
    /\ RankedView(th[l])
    /\ ViewKeys(th[l]) = <<1, 1, 0, 0>>
    /\ th[l].unsrt[1].sortkey = 0 /\ th[l].unsrt[2].sortkey = 1
    /\ th[l].unsrt[3].sortkey = 0 /\ th[l].unsrt[4].sortkey = 1
    /\ \E l2 \in Lists : th[l2].st = "donor" /\ th[l2].N = 2

\* The calls of Threshold on list record h with heap hp and pipeline p that
\* return.
ThresholdReturned(h, hp, p) == {o \in ThresholdOutcomes(h, hp, p) : o.err = "none"}

\* C31: on a well-formed list every call of Threshold, a call on a list
\* that was classified before included, returns with th->nreported equal to
\* the number of records flagged reported, with no record flagged whose
\* score the target predicate of the call rejects and no sub-record flagged
\* that is neither the best one of a reported record nor accepted by the
\* sub-record predicate; and a second call with the same pipeline leaves
\* the flags and counters of the first.
C31_FlagsFollowLatestCall ==
  \A l \in ThresholdLists :
    WellFormed(th[l], heap) =>
      \A o \in Thresholded(l) :
        /\ o.h.nreported = Cardinality({i \in 1..o.h.N : Reported(o.h.unsrt[i])})
        /\ \A i \in 1..o.h.N :
             LET r == o.h.unsrt[i] IN
             /\ Reported(r) => p7_pli_TargetReportable(o.pli, r.score, r.pvalue)
             /\ \A d \in ReportedDomains(o.hp, r) :
                  /\ Reported(r)
                  /\ \/ r.best_domain = d - 1
                     \/ p7_pli_DomainReportable(o.pli, o.hp[r.dcl].dom[d].bitscore,
                                                o.hp[r.dcl].dom[d].pvalue)
        /\ \A o2 \in ThresholdReturned(o.h, o.hp, o.pli) :
             o2.h = o.h /\ o2.hp = o.hp

\* What holds of every call: th->nreported is the number of records the
\* target predicate of the call accepts, each of them is flagged, and the
\* best sub-record of a flagged record with sub-records is flagged.
C31_CountsLatestCall ==
  \A l \in ThresholdLists :
    WellFormed(th[l], heap) =>
      \A o \in Thresholded(l) :
        /\ o.h.nreported
             = Cardinality({i \in 1..o.h.N :
                 p7_pli_TargetReportable(o.pli, o.h.unsrt[i].score, o.h.unsrt[i].pvalue)})
        /\ \A i \in 1..o.h.N :
             p7_pli_TargetReportable(o.pli, o.h.unsrt[i].score, o.h.unsrt[i].pvalue)
               => Reported(o.h.unsrt[i])

\* Some sub-record of a record of h flagged reported is flagged reported.
SomethingReported(h, hp) ==
  \E i \in 1..h.N : Reported(h.unsrt[i]) /\ ReportedDomains(hp, h.unsrt[i]) # {}

\* C32: on a well-formed list with a reported sub-record in a reported
\* record, Alignment returns without a fault, and every sub-record array it
\* reads belongs to a record flagged reported and every alignment display
\* it reads to a sub-record flagged reported of such a record - the read of
\* the model size M included.
C32_ReadsReportedOnly ==
  \A l \in LiveLists :
    (WellFormed(th[l], heap) /\ SomethingReported(th[l], heap)) =>
      \A o \in AlignmentOutcomes(th[l], heap) :
        /\ o.err = "none"
        /\ \A id \in o.reads :
             /\ heap[id].kind = "dcl" =>
                  \E i \in 1..th[l].N : Reported(th[l].unsrt[i]) /\ th[l].unsrt[i].dcl = id
             /\ heap[id].kind = "ad" =>
                  \E i \in 1..th[l].N :
                    /\ Reported(th[l].unsrt[i])
                    /\ \E d \in ReportedDomains(heap, th[l].unsrt[i]) :
                         heap[th[l].unsrt[i].dcl].dom[d].ad = id

\* What holds where the top-ranked record is flagged reported and so is its
\* first sub-record: Alignment returns without a fault and reads as C32
\* says.
C32_ReadsReportedWhenTopIs ==
  \A l \in LiveLists :
    (/\ WellFormed(th[l], heap) /\ SomethingReported(th[l], heap)
     /\ Reported(th[l].unsrt[SlotOf(th[l], 1)])
     /\ 1 \in ReportedDomains(heap, th[l].unsrt[SlotOf(th[l], 1)])) =>
      \A o \in AlignmentOutcomes(th[l], heap) :
        /\ o.err = "none"
        /\ \A id \in o.reads :
             /\ heap[id].kind = "dcl" =>
                  \E i \in 1..th[l].N : Reported(th[l].unsrt[i]) /\ th[l].unsrt[i].dcl = id
             /\ heap[id].kind = "ad" =>
                  \E i \in 1..th[l].N :
                    /\ Reported(th[l].unsrt[i])
                    /\ \E d \in ReportedDomains(heap, th[l].unsrt[i]) :
                         heap[th[l].unsrt[i].dcl].dom[d].ad = id

\* C33: on a list whose records have their sub-record field written, every
\* record in slots 0..N-1 refers to allocated payload only, and Reuse and
\* Destroy return without freeing a payload twice - also after the list was
\* filled, reused and filled again by Add or CreateNextHit.
C33_NoStalePayload ==
  \A l \in LiveLists :
    ~ReadsUndefDcl(th[l]) =>
      /\ \A id \in Owned(heap, th[l]) : heap[id].live
      /\ \A o \in ReuseOutcomes(th[l], heap) \cup DestroyOutcomes(th[l], heap) :
           o.err = "none"


\* The reports Targets and Domains write of list record h with heap hp.
Written(h, hp) ==
  UNION {{[textw |-> w, out |-> o.out, err |-> o.err] :
            o \in TargetsOutcomes(h, hp, w) \cup DomainsOutcomes(h, hp, w)}
         : w \in TextWidths}

\* C34: a Reuse that returns leaves the list with N = 0, flagged sorted,
\* hit[0] referring to slot 0 and th->nreported = 0; Targets and Domains
\* then write what they write of a new list, and a CreateNextHit returns
\* slot 0 with the values it has on a new list.
C34_ReusedLikeNew ==
  \A l \in LiveLists : \A o \in ReuseOutcomes(th[l], heap) :
    o.err = "none" =>
      /\ o.h.N = 0 /\ o.h.is_sorted /\ o.h.hit[1] = Ptr(o.h.base, 0)
      /\ o.h.nreported = 0
      /\ Written(o.h, o.hp) = Written(NewList(o.h.base), o.hp)
      /\ \A c \in CreateNextHitOutcomes(o.h) :
           c.status = "eslOK" => (c.ret = 0 /\ c.h.N = 1 /\ c.h.unsrt[1] = InitHit)

\* What holds of a Reuse that returns: N = 0, the list is flagged sorted,
\* hit[0] refers to slot 0, the capacity is as before, and a CreateNextHit
\* returns slot 0 with the values it has on a new list.
C34_ReusedButCounter ==
  \A l \in LiveLists : \A o \in ReuseOutcomes(th[l], heap) :
    o.err = "none" =>
      /\ o.h.N = 0 /\ o.h.is_sorted /\ o.h.hit[1] = Ptr(o.h.base, 0)
      /\ o.h.Nalloc = th[l].Nalloc
      /\ o.h.nreported = th[l].nreported
      /\ \A c \in CreateNextHitOutcomes(o.h) :
           c.status = "eslOK" => (c.ret = 0 /\ c.h.N = 1 /\ c.h.unsrt[1] = InitHit)
====
